---- MODULE Spec2Model ----
(***************************************************************************)
(* Model of the MCPretentious screenshot pipeline: the viewport            *)
(* calculator, the layer encoders of lib/screenshot-layers.js (iTerm2      *)
(* path), convertToLayers of lib/ansi-parser.js with the slicing and       *)
(* compaction of TmuxBackend.getScreenshot (tmux path), and the colour     *)
(* model of lib/color-utils.js.  The ANSI parser of lib/ansi-parser.js     *)
(* (parseAnsiScreen, parseAnsiLine, parseSGR), which produces the          *)
(* structured lines of the tmux path, is modelled as a second state        *)
(* machine, AnsiSpec, that steps through the parts of each raw line.       *)
(* Three further state machines cover the input side: MouseSpec            *)
(* (generateMouseEvent of lib/mouse-sgr-protocol.js), TypeSpec (the        *)
(* mcpretentious-type handler) and ManagerSpec (the BackendManager).       *)
(*                                                                         *)
(* JavaScript strings are modelled as sequences of one-character strings,  *)
(* arrays as sequences (index i of the code is index i+1 here).            *)
(***************************************************************************)
EXTENDS Integers, Sequences, FiniteSets, TLC

VARIABLES
  backend,    \* which backend serves the terminal: "iterm" or "tmux"
  terminal,   \* terminal size {width, height}
  cursor,     \* cursor position {x, y}
  lines,      \* the structured lines of the captured screen
  params,     \* the request: layers, region, aroundCursor, compact
  pc,         \* "ready" before the handler ran, then "done" or "error"
  error,      \* the kind of exception the handler caught, "none" otherwise
  viewport,   \* the viewport the handler computed
  pre,        \* the response before the compaction step
  response,   \* the response returned
  pane,       \* the cells of the tmux pane: text and attribute changes
  rawLines,   \* the captured raw lines handed to parseAnsiScreen
  lineNo,     \* the raw line parseAnsiLine is working on (1-based)
  parts,      \* parseAnsiLine: the parts of the split line
  partNo,     \* parseAnsiLine: the loop index i into parts (0-based)
  currentStyle, \* parseAnsiLine: the current style state
  result,     \* parseAnsiLine: the result {text, style} built so far
  parsedLines, \* parseAnsiScreen: the lines parsed so far
  mouse,      \* generateMouseEvent: the arguments of the call and its outcome
  typing,     \* mcpretentious-type: the arguments, textToSend and the response
  session,    \* what the type call meets: backends, terminal, sendText result
  calls,      \* the calls made on the backend manager by the type handler
  manager,    \* the fields of the BackendManager singleton
  attempt     \* the most recent initialization of the manager and what it found

frameVars == <<backend, terminal, cursor, params, error, viewport, pre, response>>
parserVars == <<pane, rawLines, lineNo, parts, partNo, currentStyle, result, parsedLines>>
auxVars == <<mouse, typing, session, calls, manager, attempt>>
vars == <<backend, terminal, cursor, lines, params, pc, error, viewport, pre, response,
          pane, rawLines, lineNo, parts, partNo, currentStyle, result, parsedLines,
          mouse, typing, session, calls, manager, attempt>>

(***************************************************************************)
(* Bounds of the model.                                                    *)
(***************************************************************************)
MaxRows == 2
MaxCols == 3
MaxAround == 1
MaxColors == 63
MaxSegment == 2
MaxScreen == 2

(***************************************************************************)
(* The input side at rest: no mouse event generated, no type call made,    *)
(* the manager as its constructor leaves it.                               *)
(***************************************************************************)
NoButton == [type |-> "undefined", n |-> 0, s |-> <<>>]
NoMouse ==
  [event |-> "none", x |-> 0, y |-> 0, button |-> NoButton, modifiers |-> {},
   thrown |-> "none", sequence |-> <<>>]

NoTyping == [terminalId |-> "", input |-> <<>>, textToSend |-> <<>>, response |-> "none"]
NoSession == [hasBackends |-> FALSE, exists |-> FALSE, sendText |-> FALSE]

\* constructor() of BackendManager; null is the empty set of an optional value.
NewManager ==
  [backends |-> <<>>, availableBackends |-> <<>>, defaultBackend |-> {},
   initialized |-> FALSE, apiMode |-> FALSE, noBackendsAvailable |-> FALSE]
NoAttempt == [generation |-> 0, kind |-> "none", found |-> FALSE, thrown |-> FALSE, count |-> 0]

AuxIdle ==
  /\ mouse = NoMouse
  /\ typing = NoTyping
  /\ session = NoSession
  /\ calls = <<>>
  /\ manager = NewManager
  /\ attempt = NoAttempt

(***************************************************************************)
(* JavaScript primitives used by the code.                                 *)
(***************************************************************************)
Max(a, b) == IF a > b THEN a ELSE b
Min(a, b) == IF a < b THEN a ELSE b

\* String.prototype.repeat for a count >= 0 (a negative count throws).
Repeat(c, n) == [k \in 1..n |-> c]

\* Array.prototype.join('') of an array of strings.
RECURSIVE Join(_)
Join(ss) == IF ss = <<>> THEN <<>> ELSE Head(ss) \o Join(Tail(ss))

\* String.prototype.substring(a, b): both ends clamped to [0, length],
\* swapped when a > b.
Substring(s, a, b) ==
  LET ca == Max(0, Min(a, Len(s)))
      cb == Max(0, Min(b, Len(s)))
      lo == Min(ca, cb)
      hi == Max(ca, cb)
  IN  SubSeq(s, lo + 1, hi)

\* Array.prototype.slice(a, b): a negative end counts from the end.
JsSlice(s, a, b) ==
  LET ra == IF a < 0 THEN Max(Len(s) + a, 0) ELSE Min(a, Len(s))
      rb == IF b < 0 THEN Max(Len(s) + b, 0) ELSE Min(b, Len(s))
  IN  SubSeq(s, ra + 1, rb)

\* A string is truthy iff it is not empty (no trim()).
TrimNonEmpty_noTrim(s) == s # <<>>

\* String.prototype.trim() is truthy iff some character is not whitespace.
TrimNonEmpty(s) == \E k \in 1..Len(s) : s[k] # " "

\* Number.prototype.toString(16) of a non-negative integer.
HexDigits == <<"0","1","2","3","4","5","6","7","8","9","a","b","c","d","e","f">>
RECURSIVE ToString16(_)
ToString16(n) ==
  IF n < 16 THEN <<HexDigits[n + 1]>>
  ELSE ToString16(n \div 16) \o <<HexDigits[(n % 16) + 1]>>

\* String(n) of a non-negative integer.
RECURSIVE DecimalString(_)
DecimalString(n) ==
  IF n < 10 THEN <<HexDigits[n + 1]>>
  ELSE DecimalString(n \div 10) \o <<HexDigits[(n % 10) + 1]>>

(***************************************************************************)
(* Colour model (color-utils.js).                                          *)
(***************************************************************************)
Rgb(r, g, b) == [r |-> r, g |-> g, b |-> b]

ANSI_TO_RGB ==
  <<Rgb(0,0,0), Rgb(194,54,33), Rgb(37,188,36), Rgb(173,173,39),
    Rgb(73,46,225), Rgb(211,56,211), Rgb(51,187,200), Rgb(203,204,205),
    Rgb(129,131,131), Rgb(252,57,31), Rgb(49,231,34), Rgb(234,236,35),
    Rgb(88,51,255), Rgb(249,53,248), Rgb(20,240,240), Rgb(233,235,235)>>

levels == <<0, 95, 135, 175, 215, 255>>

\* The grayscale ramp started one index early.
color256ToRGB_grayShift(index) ==
  IF index < 16 THEN
    (IF index >= 0 THEN ANSI_TO_RGB[index + 1] ELSE Rgb(0,0,0))
  ELSE IF index < 232 THEN
    LET i == index - 16
    IN  Rgb(levels[(i \div 36) + 1], levels[((i % 36) \div 6) + 1], levels[(i % 6) + 1])
  ELSE
    LET gray == 8 + (index - 231) * 10
    IN  Rgb(gray, gray, gray)

color256ToRGB(index) ==
  IF index < 16 THEN
    (IF index >= 0 THEN ANSI_TO_RGB[index + 1] ELSE Rgb(0,0,0))
  ELSE IF index < 232 THEN
    LET i == index - 16
    IN  Rgb(levels[(i \div 36) + 1], levels[((i % 36) \div 6) + 1], levels[(i % 6) + 1])
  ELSE
    LET gray == 8 + (index - 232) * 10
    IN  Rgb(gray, gray, gray)

\* toHex(n) of rgbToHex; a missing property is undefined, Math.round gives
\* NaN and NaN.toString(16) is "NaN".
toHex(rgb, field) ==
  IF field \in DOMAIN rgb
  THEN LET h == ToString16(rgb[field])
       IN  IF Len(h) < 2 THEN <<"0">> \o h ELSE h
  ELSE <<"N", "a", "N">>

rgbToHex(rgb) == <<"#">> \o toHex(rgb, "r") \o toHex(rgb, "g") \o toHex(rgb, "b")

(***************************************************************************)
(* Structured lines.  A colour of a style run is a tagged value:           *)
(* "none" (no colour field), "alt" (fgAlternate/bgAlternate = DEFAULT),    *)
(* "std" (fgStandard/bgStandard = idx), "rgb" (fgRgb/bgRgb).               *)
(***************************************************************************)
Color(tag, idx, red, green, blue) ==
  [tag |-> tag, idx |-> idx, red |-> red, green |-> green, blue |-> blue]
NoColor == Color("none", 0, 0, 0, 0)
AltDefault == Color("alt", 0, 0, 0, 0)
Std(i) == Color("std", i, 0, 0, 0)
TrueColor(r, g, b) == Color("rgb", 0, r, g, b)

StyleRun(n, bold, italic, underline, fg, bg) ==
  [repeats |-> n, bold |-> bold, italic |-> italic, underline |-> underline,
   fg |-> fg, bg |-> bg]

Line(text, hasStyle, style) == [text |-> text, hasStyle |-> hasStyle, style |-> style]

\* { repeats: n }: a run without attributes and colours.
Plain(n) == StyleRun(n, FALSE, FALSE, FALSE, NoColor, NoColor)

\* styleRun.repeats || 1
Repeats(styleRun) == IF styleRun.repeats = 0 THEN 1 ELSE styleRun.repeats

\* The per-column stream of a line: chars[k] is the character computed for
\* style run k, repeated Repeats(style[k]) times.
RECURSIVE Expand(_, _, _)
Expand(style, chars, k) ==
  IF k > Len(style) THEN <<>>
  ELSE Repeat(chars[k], Repeats(style[k])) \o Expand(style, chars, k + 1)

\* The slicing loop shared by encodeColorLine, encodeStyleLine and
\* extractSingleStyle: the columns [left, left + width) of the stream,
\* padded with fill up to width characters.
SliceRow(stream, vp, fill) ==
  [c \in 1..vp.width |->
     IF vp.left + c <= Len(stream) THEN stream[vp.left + c] ELSE fill]

(***************************************************************************)
(* Viewport calculator (screenshot-layers.js).                             *)
(***************************************************************************)
Viewport(mode, left, top, width, height) ==
  [mode |-> mode, left |-> left, top |-> top, width |-> width, height |-> height]

\* params.region.left || 0
OrZero(has, v) == IF has THEN v ELSE 0

\* aroundCursor checked before region.
calculateViewport_aroundFirst(term, cur, p) ==
  IF p.hasAround THEN
    Viewport("aroundCursor", 0, Max(0, cur.y - p.aroundCursor), term.width,
             Min(term.height, p.aroundCursor * 2 + 1))
  ELSE IF p.hasRegion THEN
    Viewport("region", OrZero(p.hasLeft, p.left), OrZero(p.hasTop, p.top),
             p.width, p.height)
  ELSE
    Viewport("full", 0, 0, term.width, term.height)

\* aroundCursor without the clamp of the height to the terminal height.
calculateViewport_noClamp(term, cur, p) ==
  IF p.hasRegion THEN
    Viewport("region", OrZero(p.hasLeft, p.left), OrZero(p.hasTop, p.top),
             p.width, p.height)
  ELSE IF p.hasAround THEN
    Viewport("aroundCursor", 0, Max(0, cur.y - p.aroundCursor), term.width,
             p.aroundCursor * 2 + 1)
  ELSE
    Viewport("full", 0, 0, term.width, term.height)

calculateViewport(term, cur, p) ==
  IF p.hasRegion THEN
    Viewport("region", OrZero(p.hasLeft, p.left), OrZero(p.hasTop, p.top),
             p.width, p.height)
  ELSE IF p.hasAround THEN
    Viewport("aroundCursor", 0, Max(0, cur.y - p.aroundCursor), term.width,
             Min(term.height, p.aroundCursor * 2 + 1))
  ELSE
    Viewport("full", 0, 0, term.width, term.height)

(***************************************************************************)
(* Layer encoders of the iTerm2 path (screenshot-layers.js).               *)
(***************************************************************************)
\* const endRow = Math.min(lines.length, viewport.top + viewport.height)
EndRow(ls, vp) == Min(Len(ls), vp.top + vp.height)

\* The indices visited by  for (let i = viewport.top; i < endRow; i++),
\* as indices into the sequence (code index + 1).
RowIndices(ls, vp) == [k \in 1..(EndRow(ls, vp) - vp.top) |-> vp.top + k]

sliceText(text, vp) ==
  IF vp.left > 0 \/ vp.width < Len(text)
  THEN Substring(text, vp.left, vp.left + vp.width)
  ELSE text

extractTextLayer(ls, vp, compact) ==
  LET idx == RowIndices(ls, vp)
      all == [k \in 1..Len(idx) |-> sliceText(ls[idx[k]].text, vp)]
  IN  IF compact THEN SelectSeq(all, TrimNonEmpty) ELSE all

Digits09 == <<"0","1","2","3","4","5","6","7","8","9">>
LowerAZ == <<"a","b","c","d","e","f","g","h","i","j","k","l","m",
             "n","o","p","q","r","s","t","u","v","w","x","y","z">>
UpperAZ == <<"A","B","C","D","E","F","G","H","I","J","K","L","M",
             "N","O","P","Q","R","S","T","U","V","W","X","Y","Z">>

\* The first index for which indexToChar throws.
PaletteLimit == 62

indexToChar(index) ==
  IF index = 0 THEN "0"
  ELSE IF index < 10 THEN Digits09[index + 1]
  ELSE IF index < 36 THEN LowerAZ[index - 10 + 1]
  ELSE IF index < PaletteLimit THEN UpperAZ[index - 36 + 1]
  ELSE "throw"

\* The absent value (null / undefined) of a string-valued expression.
Null == <<>>

\* extractColorFromStyle followed by  color ? rgbToHex(color) : null
extractColorFromStyle(styleRun, isBackground) ==
  LET c == IF isBackground THEN styleRun.bg ELSE styleRun.fg
  IN  IF c.tag = "rgb" THEN rgbToHex(Rgb(c.red, c.green, c.blue))
      ELSE IF c.tag = "std" THEN rgbToHex(color256ToRGB(c.idx))
      ELSE Null

IndexOf(seq, x) == CHOOSE k \in 1..Len(seq) : seq[k] = x
Contains(seq, x) == \E k \in 1..Len(seq) : seq[k] = x

\* if (hex && !palette[hex]) palette[hex] = ...  over a list of candidates:
\* the distinct non-null hex strings in first-seen order.
RECURSIVE FirstSeen(_, _)
FirstSeen(cands, acc) ==
  IF cands = <<>> THEN acc
  ELSE IF Head(cands) = Null \/ Contains(acc, Head(cands))
       THEN FirstSeen(Tail(cands), acc)
       ELSE FirstSeen(Tail(cands), Append(acc, Head(cands)))

runHexes(styleRun, needsFg, needsBg) ==
  (IF needsFg THEN <<extractColorFromStyle(styleRun, FALSE)>> ELSE <<>>)
  \o (IF needsBg THEN <<extractColorFromStyle(styleRun, TRUE)>> ELSE <<>>)

lineHexes(line, needsFg, needsBg) ==
  IF line.hasStyle
  THEN Join([k \in 1..Len(line.style) |-> runHexes(line.style[k], needsFg, needsBg)])
  ELSE <<>>

\* First pass of extractColorLayers: the palette keys in insertion order.
buildPalette(ls, vp, needsFg, needsBg) ==
  LET idx == RowIndices(ls, vp)
  IN  FirstSeen(Join([k \in 1..Len(idx) |-> lineHexes(ls[idx[k]], needsFg, needsBg)]), <<>>)

\* hex && palette[hex] ? palette[hex] : '0'
paletteChar(palette, hex) ==
  IF hex # Null /\ Contains(palette, hex) THEN indexToChar(IndexOf(palette, hex)) ELSE "0"

encodeColorLine(line, vp, palette, isBackground) ==
  IF ~line.hasStyle THEN Repeat("0", vp.width)
  ELSE SliceRow(Expand(line.style,
                       [k \in 1..Len(line.style) |->
                          paletteChar(palette, extractColorFromStyle(line.style[k], isBackground))],
                       1),
                vp, "0")

\* outputPalette = { '0': null } plus char -> hex for every palette entry;
\* tokens[k] is the token given to the k-th palette key.
invertPalette(palette, tokens) ==
  [t \in {<<"0">>} \cup {tokens[k] : k \in 1..Len(palette)} |->
     IF t = <<"0">> THEN Null
     ELSE palette[CHOOSE k \in 1..Len(palette) : tokens[k] = t]]

iTermToken(k) == <<indexToChar(k)>>

\* A line without style makes '0'.repeat(viewport.width) run: RangeError
\* for a negative width.
repeatThrows(ls, vp) ==
  vp.width < 0 /\ \E k \in 1..Len(RowIndices(ls, vp)) : ~ls[RowIndices(ls, vp)[k]].hasStyle

NoLayers == [l \in {} |-> <<>>]

extractColorLayers(ls, vp, layers) ==
  LET needsFg == "fgColors" \in layers
      needsBg == "bgColors" \in layers
      palette == buildPalette(ls, vp, needsFg, needsBg)
      idx == RowIndices(ls, vp)
  IN  IF ~needsFg /\ ~needsBg THEN [err |-> "none", rows |-> NoLayers, colorPalette |-> {}]
      ELSE IF Len(palette) >= PaletteLimit
        THEN [err |-> "PaletteOverflow", rows |-> NoLayers, colorPalette |-> {}]
      ELSE IF repeatThrows(ls, vp)
        THEN [err |-> "RangeError", rows |-> NoLayers, colorPalette |-> {}]
      ELSE [err |-> "none",
            rows |-> [l \in layers \cap {"fgColors", "bgColors"} |->
                        [k \in 1..Len(idx) |->
                           encodeColorLine(ls[idx[k]], vp, palette, l = "bgColors")]],
            colorPalette |-> {invertPalette(palette, [k \in 1..Len(palette) |-> iTermToken(k)])}]

\* The characters of bold+italic and bold+underline exchanged.
getStyleChar_swapped(bold, italic, underline) ==
  IF ~bold /\ ~italic /\ ~underline THEN "."
  ELSE IF bold /\ ~italic /\ ~underline THEN "b"
  ELSE IF ~bold /\ italic /\ ~underline THEN "i"
  ELSE IF ~bold /\ ~italic /\ underline THEN "u"
  ELSE IF bold /\ italic /\ ~underline THEN "U"
  ELSE IF bold /\ ~italic /\ underline THEN "I"
  ELSE IF ~bold /\ italic /\ underline THEN "J"
  ELSE "X"

getStyleChar(bold, italic, underline) ==
  IF ~bold /\ ~italic /\ ~underline THEN "."
  ELSE IF bold /\ ~italic /\ ~underline THEN "b"
  ELSE IF ~bold /\ italic /\ ~underline THEN "i"
  ELSE IF ~bold /\ ~italic /\ underline THEN "u"
  ELSE IF bold /\ italic /\ ~underline THEN "I"
  ELSE IF bold /\ ~italic /\ underline THEN "U"
  ELSE IF ~bold /\ italic /\ underline THEN "J"
  ELSE "X"

encodeStyleLine(line, vp) ==
  IF ~line.hasStyle THEN Repeat(".", vp.width)
  ELSE SliceRow(Expand(line.style,
                       [k \in 1..Len(line.style) |->
                          getStyleChar(line.style[k].bold, line.style[k].italic,
                                       line.style[k].underline)],
                       1),
                vp, ".")

extractSingleStyle(ls, vp, attribute) ==
  LET idx == RowIndices(ls, vp)
  IN  [k \in 1..Len(idx) |->
         LET line == ls[idx[k]]
         IN  IF ~line.hasStyle THEN Repeat(" ", vp.width)
             ELSE SliceRow(Expand(line.style,
                                  [r \in 1..Len(line.style) |->
                                     IF line.style[r][attribute] THEN "X" ELSE " "],
                                  1),
                           vp, " ")]

styleLegend ==
  [c \in {".", "b", "i", "u", "I", "U", "J", "X"} |->
     CASE c = "." -> "null"
       [] c = "b" -> "bold"
       [] c = "i" -> "italic"
       [] c = "u" -> "underline"
       [] c = "I" -> "bold+italic"
       [] c = "U" -> "bold+underline"
       [] c = "J" -> "italic+underline"
       [] c = "X" -> "bold+italic+underline"]

extractStyleLayers(ls, vp, layers) ==
  LET idx == RowIndices(ls, vp)
  IN  IF repeatThrows(ls, vp) /\ layers \cap {"styles", "bold", "italic", "underline"} # {}
      THEN [err |-> "RangeError", rows |-> NoLayers, styleLegend |-> {}]
      ELSE [err |-> "none",
            rows |-> [l \in layers \cap {"styles", "bold", "italic", "underline"} |->
                        IF l = "styles"
                        THEN [k \in 1..Len(idx) |-> encodeStyleLine(ls[idx[k]], vp)]
                        ELSE extractSingleStyle(ls, vp, l)],
            styleLegend |-> IF "styles" \in layers THEN {styleLegend} ELSE {}]

\* The array-valued layers of a frame.
arrayLayers == {"text", "styles", "bold", "italic", "underline", "fgColors", "bgColors"}

\* Indices of the rows of the text layer that are non-empty after trim().
RECURSIVE nonEmptyIndices(_, _)
nonEmptyIndices(text, k) ==
  IF k > Len(text) THEN <<>>
  ELSE (IF TrimNonEmpty(text[k]) THEN <<k>> ELSE <<>>) \o nonEmptyIndices(text, k + 1)

\* response[layer] = nonEmptyIndices.map(idx => response[layer][idx])
keepIndices(rows, keep) == [k \in 1..Len(keep) |-> rows[keep[k]]]

\* Compaction that filters the text layer only.
applyCompactMode_textOnly(resp) ==
  IF "text" \notin DOMAIN resp.rows THEN resp
  ELSE LET keep == nonEmptyIndices(resp.rows["text"], 1)
       IN  [resp EXCEPT !.rows["text"] = keepIndices(resp.rows["text"], keep)]

applyCompactMode(resp) ==
  IF "text" \notin DOMAIN resp.rows THEN resp
  ELSE LET keep == nonEmptyIndices(resp.rows["text"], 1)
       IN  [resp EXCEPT !.rows = [l \in DOMAIN resp.rows |-> keepIndices(resp.rows[l], keep)]]

\* f @@ g for layer maps (Object.assign).
Merge(f, g) == [l \in (DOMAIN f) \cup (DOMAIN g) |-> IF l \in DOMAIN g THEN g[l] ELSE f[l]]

Frame(term, vp, cur, rows, palette, legend) ==
  [terminal |-> term, viewport |-> vp, cursor |-> cur, rows |-> rows,
   colorPalette |-> palette, styleLegend |-> legend]

\* The iTerm2 branch of the mcpretentious-screenshot handler, before the
\* compaction step: an error kind, or the response built so far.
iTermResponse(term, cur, ls, p) ==
  LET vp == calculateViewport(term, cur, p)
      cursorInfo == IF "cursor" \in p.layers
                    THEN {[left |-> cur.x, top |-> cur.y,
                           relLeft |-> cur.x - vp.left, relTop |-> cur.y - vp.top]}
                    ELSE {}
      textRows == IF "text" \in p.layers
                  THEN [l \in {"text"} |-> extractTextLayer(ls, vp, FALSE)]
                  ELSE NoLayers
      colors == extractColorLayers(ls, vp, p.layers \cap {"fgColors", "bgColors"})
      styles == extractStyleLayers(ls, vp, p.layers \cap {"styles", "bold", "italic", "underline"})
  IN  IF colors.err # "none" THEN [err |-> colors.err]
      ELSE IF styles.err # "none" THEN [err |-> styles.err]
      ELSE [err |-> "none",
            frame |-> Frame(term, vp, cursorInfo,
                            Merge(Merge(textRows, colors.rows), styles.rows),
                            colors.colorPalette, styles.styleLegend)]

(***************************************************************************)
(* The tmux path: convertToLayers (ansi-parser.js) and                     *)
(* TmuxBackend.getScreenshot (tmux-backend.js).                            *)
(***************************************************************************)
styleLayerNames == {"fgColors", "bgColors", "styles", "bold", "italic", "underline"}

\* rgbToHex(styleRun.fgRgb) / rgbToHex(color256ToRGB(styleRun.fgStandard)):
\* the run's fgRgb object carries the properties red, green, blue.
convertHex(c) ==
  IF c.tag = "rgb" THEN rgbToHex([red |-> c.red, green |-> c.green, blue |-> c.blue])
  ELSE IF c.tag = "std" THEN rgbToHex(color256ToRGB(c.idx))
  ELSE Null

convertLineHexes(line) ==
  IF line.hasStyle
  THEN Join([k \in 1..Len(line.style) |->
               <<convertHex(line.style[k].fg), convertHex(line.style[k].bg)>>])
  ELSE <<>>

\* First pass of convertToLayers: every run of every line of the screen.
convertPalette(ls) ==
  FirstSeen(Join([k \in 1..Len(ls) |-> convertLineHexes(ls[k])]), <<>>)

\* palette[hex] = String(paletteIndex++)
tmuxToken(k) == DecimalString(k)

\* palette[hex] || '0'
convertChar(palette, hex) ==
  IF hex # Null /\ Contains(palette, hex) THEN tmuxToken(IndexOf(palette, hex)) ELSE <<"0">>

convertStyleChar(styleRun) ==
  IF styleRun.bold /\ styleRun.italic /\ styleRun.underline THEN "X"
  ELSE IF styleRun.bold /\ styleRun.italic THEN "I"
  ELSE IF styleRun.bold /\ styleRun.underline THEN "U"
  ELSE IF styleRun.italic /\ styleRun.underline THEN "J"
  ELSE IF styleRun.bold THEN "b"
  ELSE IF styleRun.italic THEN "i"
  ELSE IF styleRun.underline THEN "u"
  ELSE "."

\* What one run pushes per column into the array of the given layer.
convertRunItem(styleRun, palette, layer) ==
  CASE layer = "fgColors" -> convertChar(palette, convertHex(styleRun.fg))
    [] layer = "bgColors" -> convertChar(palette, convertHex(styleRun.bg))
    [] layer = "styles" -> <<convertStyleChar(styleRun)>>
    [] OTHER -> IF styleRun[layer] THEN <<"X">> ELSE <<" ">>

convertFill(layer) ==
  CASE layer \in {"fgColors", "bgColors"} -> <<"0">>
    [] layer = "styles" -> <<".">>
    [] OTHER -> <<" ">>

\* One row of a layer: line.text.length pushes (runs first, then padding),
\* joined into a string.
convertLine(line, palette, layer) ==
  LET style == IF line.hasStyle THEN line.style ELSE <<>>
      stream == Expand(style, [k \in 1..Len(style) |-> convertRunItem(style[k], palette, layer)], 1)
  IN  Join([c \in 1..Len(line.text) |->
              IF c <= Len(stream) THEN stream[c] ELSE convertFill(layer)])

convertToLayers(ls, cur, layers) ==
  LET styled == layers \cap styleLayerNames # {}
      palette == convertPalette(ls)
      textRows == [l \in {"text"} |-> [k \in 1..Len(ls) |-> ls[k].text]]
      styleRows == [l \in layers \cap styleLayerNames |->
                      [k \in 1..Len(ls) |-> convertLine(ls[k], palette, l)]]
  IN  [cursor |-> IF "cursor" \in layers THEN {cur} ELSE {},
       rows |-> IF styled THEN Merge(textRows, styleRows) ELSE textRows,
       colorPalette |-> IF styled /\ layers \cap {"fgColors", "bgColors"} # {} /\ Len(palette) > 0
                        THEN {invertPalette(palette, [k \in 1..Len(palette) |-> tmuxToken(k)])} ELSE {},
       styleLegend |-> IF styled /\ "styles" \in layers THEN {styleLegend} ELSE {}]

\* client.getScreenContents(sessionId, needsStyles): without styles the
\* lines carry text only.
tmuxScreenLines(ls, layers) ==
  IF layers \cap styleLayerNames # {} THEN ls
  ELSE [k \in 1..Len(ls) |-> Line(ls[k].text, FALSE, <<>>)]

\* layers[layer].slice(top, endRow).map(line => left > 0 ? substring : line)
sliceLayer(rows, vp, endRow) ==
  LET part == JsSlice(rows, vp.top, endRow)
  IN  [k \in 1..Len(part) |->
         IF vp.left > 0 THEN Substring(part[k], vp.left, vp.left + vp.width) ELSE part[k]]

\* "Calculate viewport" / "Apply viewport options" of getScreenshot;
\* cursorY = screen.cursor?.y || 0.
tmuxViewport(term, cur, p) ==
  IF p.hasRegion THEN
    Viewport("region", OrZero(p.hasLeft, p.left), OrZero(p.hasTop, p.top),
             p.width, p.height)
  ELSE IF p.hasAround THEN
    LET n == p.aroundCursor
        cursorY == cur.y
    IN  Viewport("aroundCursor", 0, Max(0, cursorY - n), term.width,
                 Min(term.height, n * 2 + 1))
  ELSE
    Viewport("full", 0, 0, term.width, term.height)

\* TmuxBackend.getScreenshot up to "Adjust cursor position", before the
\* compaction step.
tmuxResponse(term, cur, ls, p) ==
  LET screen == tmuxScreenLines(ls, p.layers)
      vp == tmuxViewport(term, cur, p)
      conv == convertToLayers(screen, cur, p.layers)
      endRow == Min(Len(conv.rows["text"]), vp.top + vp.height)
      rows == IF vp.mode # "full"
              THEN [l \in DOMAIN conv.rows |-> sliceLayer(conv.rows[l], vp, endRow)]
              ELSE conv.rows
      rel == [relLeft |-> cur.x - vp.left, relTop |-> cur.y - vp.top]
      outside == rel.relLeft < 0 \/ rel.relLeft >= vp.width
                 \/ rel.relTop < 0 \/ rel.relTop >= vp.height
      cursorInfo == IF conv.cursor # {}
                    THEN {[left |-> cur.x, top |-> cur.y,
                           relLeft |-> IF outside THEN -1 ELSE rel.relLeft,
                           relTop |-> IF outside THEN -1 ELSE rel.relTop]}
                    ELSE {}
  IN  [err |-> "none",
       frame |-> Frame(term, vp, cursorInfo, rows, conv.colorPalette, conv.styleLegend)]

\* if (options.compact) { ... response.text.forEach ... }
tmuxCompact(resp) ==
  LET keep == nonEmptyIndices(resp.rows["text"], 1)
  IN  [resp EXCEPT !.rows = [l \in DOMAIN resp.rows |-> keepIndices(resp.rows[l], keep)]]

(***************************************************************************)
(* The ANSI parser (ansi-parser.js): parseSGR and parseAnsiLine.           *)
(* A raw line is a string; "ESC" stands for the character \x1b.            *)
(***************************************************************************)
\* The characters of the class [0-9;].
IsParamChar(c) == c \in {"0","1","2","3","4","5","6","7","8","9",";"}

\* The length of the longest run of [0-9;] characters of s that starts at p.
RECURSIVE ParamRun(_, _)
ParamRun(s, p) ==
  IF p <= Len(s) /\ IsParamChar(s[p]) THEN 1 + ParamRun(s, p + 1) ELSE 0

\* Whether /\x1b\[([0-9;]+m)/ matches at position p of s.
MatchAt(s, p) ==
  /\ s[p] = "ESC"
  /\ p + 1 <= Len(s)
  /\ s[p + 1] = "["
  /\ LET n == ParamRun(s, p + 2)
     IN  n >= 1 /\ p + 2 + n <= Len(s) /\ s[p + 2 + n] = "m"

\* line.split(/\x1b\[([0-9;]+m)/) from position p on, start being the
\* first character of the text part under construction: text parts at the
\* even indices (0-based), captured groups at the odd ones.
RECURSIVE SplitFrom(_, _, _)
SplitFrom(s, p, start) ==
  IF p > Len(s) THEN <<SubSeq(s, start, Len(s))>>
  ELSE IF MatchAt(s, p)
    THEN LET n == ParamRun(s, p + 2)
         IN  <<SubSeq(s, start, p - 1), SubSeq(s, p + 2, p + 2 + n)>>
             \o SplitFrom(s, p + 3 + n, p + 3 + n)
    ELSE SplitFrom(s, p + 1, start)

split(line) == SplitFrom(line, 1, 1)

\* sequence.replace('m', ''): the first 'm' removed.
RECURSIVE replaceM(_)
replaceM(s) ==
  IF s = <<>> THEN <<>>
  ELSE IF Head(s) = "m" THEN Tail(s)
  ELSE <<Head(s)>> \o replaceM(Tail(s))

\* s.split(';')
RECURSIVE splitSemicolon(_, _)
splitSemicolon(s, acc) ==
  IF s = <<>> THEN <<acc>>
  ELSE IF Head(s) = ";" THEN <<acc>> \o splitSemicolon(Tail(s), <<>>)
  ELSE splitSemicolon(Tail(s), Append(acc, Head(s)))

\* Number(s) of a string of decimal digits; Number('') is 0.
RECURSIVE Number(_)
Number(s) ==
  IF s = <<>> THEN 0
  ELSE 10 * Number(SubSeq(s, 1, Len(s) - 1))
       + (CHOOSE d \in 0..9 : HexDigits[d + 1] = s[Len(s)])

\* const codes = sequence.replace('m', '').split(';').map(Number)
codesOf(sequence) ==
  LET strs == splitSemicolon(replaceM(sequence), <<>>)
  IN  [k \in 1..Len(strs) |-> Number(strs[k])]

\* The values of a colour property: undefined, null, or an {r, g, b} object.
JsUndefined == [kind |-> "undefined", r |-> 0, g |-> 0, b |-> 0]
JsNull == [kind |-> "null", r |-> 0, g |-> 0, b |-> 0]
JsRgb(r, g, b) == [kind |-> "rgb", r |-> r, g |-> g, b |-> b]
JsColor(rgb) == JsRgb(rgb.r, rgb.g, rgb.b)

\* An optional property is a set: empty when undefined, else its value.
Undefined == {}

STANDARD_COLORS ==
  [code \in (30..37) \cup (90..97) |->
     IF code < 90
     THEN <<Rgb(0,0,0), Rgb(194,54,33), Rgb(37,188,36), Rgb(173,173,39),
            Rgb(73,46,225), Rgb(211,56,211), Rgb(51,187,200), Rgb(203,204,205)>>[code - 29]
     ELSE <<Rgb(129,131,131), Rgb(252,57,31), Rgb(49,231,34), Rgb(234,236,35),
            Rgb(88,51,255), Rgb(249,53,248), Rgb(20,240,240), Rgb(233,235,235)>>[code - 89]]

\* const attrs = {}
NoAttrs ==
  [reset |-> FALSE, bold |-> Undefined, italic |-> Undefined, underline |-> Undefined,
   fgColor |-> JsUndefined, fgStandard |-> Undefined, fgAlternate |-> Undefined,
   bgColor |-> JsUndefined, bgStandard |-> Undefined, bgAlternate |-> Undefined]

\* codes[i] for a 0-based i; -1 stands for undefined (out of range).
codeAt(codes, i) == IF i >= 0 /\ i < Len(codes) THEN codes[i + 1] ELSE -1

\* attrs.fgStandard = code - 90 + 8, without the + 8.
brightIndex_noOffset(code, base) == code - base

\* code - 90 + 8 / code - 100 + 8
brightIndex(code, base) == code - base + 8

\* One iteration of the loop of parseSGR: the switch on codes[i].  Gives
\* the attrs after it and the value of i at the end of the iteration.
sgrCase(codes, i, attrs) ==
  LET code == codeAt(codes, i)
      same == [attrs |-> attrs, i |-> i]
  IN  CASE code = 0 -> [attrs |-> [attrs EXCEPT !.reset = TRUE], i |-> i]
        [] code = 1 -> [attrs |-> [attrs EXCEPT !.bold = {TRUE}], i |-> i]
        [] code = 3 -> [attrs |-> [attrs EXCEPT !.italic = {TRUE}], i |-> i]
        [] code = 4 -> [attrs |-> [attrs EXCEPT !.underline = {TRUE}], i |-> i]
        [] code = 22 -> [attrs |-> [attrs EXCEPT !.bold = {FALSE}], i |-> i]
        [] code = 23 -> [attrs |-> [attrs EXCEPT !.italic = {FALSE}], i |-> i]
        [] code = 24 -> [attrs |-> [attrs EXCEPT !.underline = {FALSE}], i |-> i]
        [] code \in 30..37 ->
             [attrs |-> [attrs EXCEPT !.fgColor = JsColor(STANDARD_COLORS[code]),
                                      !.fgStandard = {code - 30}], i |-> i]
        [] code \in 90..97 ->
             [attrs |-> [attrs EXCEPT !.fgColor = JsColor(STANDARD_COLORS[code]),
                                      !.fgStandard = {brightIndex(code, 90)}], i |-> i]
        [] code \in 40..47 ->
             [attrs |-> [attrs EXCEPT !.bgColor = JsColor(STANDARD_COLORS[code - 10]),
                                      !.bgStandard = {code - 40}], i |-> i]
        [] code \in 100..107 ->
             [attrs |-> [attrs EXCEPT !.bgColor = JsColor(STANDARD_COLORS[code - 10]),
                                      !.bgStandard = {brightIndex(code, 100)}], i |-> i]
        [] code = 38 ->
             IF codeAt(codes, i + 1) = 5 /\ i + 2 < Len(codes)
             THEN [attrs |-> [attrs EXCEPT
                                !.fgColor = JsColor(color256ToRGB(codeAt(codes, i + 2))),
                                !.fgStandard = {codeAt(codes, i + 2)}],
                   i |-> i + 2]
             ELSE IF codeAt(codes, i + 1) = 2 /\ i + 4 < Len(codes)
             THEN [attrs |-> [attrs EXCEPT
                                !.fgColor = JsRgb(codeAt(codes, i + 2), codeAt(codes, i + 3),
                                                  codeAt(codes, i + 4))],
                   i |-> i + 4]
             ELSE same
        [] code = 48 ->
             IF codeAt(codes, i + 1) = 5 /\ i + 2 < Len(codes)
             THEN [attrs |-> [attrs EXCEPT
                                !.bgColor = JsColor(color256ToRGB(codeAt(codes, i + 2))),
                                !.bgStandard = {codeAt(codes, i + 2)}],
                   i |-> i + 2]
             ELSE IF codeAt(codes, i + 1) = 2 /\ i + 4 < Len(codes)
             THEN [attrs |-> [attrs EXCEPT
                                !.bgColor = JsRgb(codeAt(codes, i + 2), codeAt(codes, i + 3),
                                                  codeAt(codes, i + 4))],
                   i |-> i + 4]
             ELSE same
        [] code = 39 ->
             [attrs |-> [attrs EXCEPT !.fgColor = JsNull, !.fgAlternate = {"DEFAULT"}], i |-> i]
        [] code = 49 ->
             [attrs |-> [attrs EXCEPT !.bgColor = JsNull, !.bgAlternate = {"DEFAULT"}], i |-> i]
        [] OTHER -> same

\* for (let i = 0; i < codes.length; i++) { switch ... }
RECURSIVE sgrLoop(_, _, _)
sgrLoop(codes, i, attrs) ==
  IF i >= Len(codes) THEN attrs
  ELSE LET step == sgrCase(codes, i, attrs)
       IN  sgrLoop(codes, step.i + 1, step.attrs)

parseSGR(sequence) == sgrLoop(codesOf(sequence), 0, NoAttrs)

\* let currentStyle = { bold: false, ..., fgStandard: undefined, ... }
DefaultStyle ==
  [bold |-> FALSE, italic |-> FALSE, underline |-> FALSE,
   fgColor |-> JsNull, fgStandard |-> Undefined, fgAlternate |-> Undefined,
   bgColor |-> JsNull, bgStandard |-> Undefined, bgAlternate |-> Undefined]

\* The else branch of parseAnsiLine for an escape sequence: reset, or the
\* attribute changes applied to the current style.
applyAttrs(style, attrs) ==
  IF attrs.reset THEN DefaultStyle
  ELSE LET s1 == [style EXCEPT
                    !.bold = IF attrs.bold # Undefined
                             THEN (CHOOSE v \in attrs.bold : TRUE) ELSE @,
                    !.italic = IF attrs.italic # Undefined
                               THEN (CHOOSE v \in attrs.italic : TRUE) ELSE @,
                    !.underline = IF attrs.underline # Undefined
                                  THEN (CHOOSE v \in attrs.underline : TRUE) ELSE @]
           s2 == IF attrs.fgColor # JsUndefined
                 THEN [s1 EXCEPT !.fgColor = attrs.fgColor,
                                 !.fgStandard = attrs.fgStandard,
                                 !.fgAlternate = attrs.fgAlternate]
                 ELSE s1
       IN  IF attrs.bgColor # JsUndefined
           THEN [s2 EXCEPT !.bgColor = attrs.bgColor,
                           !.bgStandard = attrs.bgStandard,
                           !.bgAlternate = attrs.bgAlternate]
           ELSE s2

\* The colour fields a style run gets from the current style:
\* fgStandard / fgRgb / fgAlternate, or none.
runColor(color, standard, alternate) ==
  IF color.kind = "rgb"
  THEN (IF standard # Undefined THEN Std(CHOOSE n \in standard : TRUE)
        ELSE TrueColor(color.r, color.g, color.b))
  ELSE IF alternate # Undefined THEN AltDefault
  ELSE NoColor

\* const styleRun = { repeats: text.length }; ... for the current style.
makeStyleRun(style, n) ==
  StyleRun(n, style.bold, style.italic, style.underline,
           runColor(style.fgColor, style.fgStandard, style.fgAlternate),
           runColor(style.bgColor, style.bgStandard, style.bgAlternate))

\* const result = { text: '', style: [] }
EmptyResult == [text |-> <<>>, style |-> <<>>]

\* The text branch without the test text.length > 0.
pushText_noGuard(res, style, text) ==
  [text |-> res.text \o text, style |-> Append(res.style, makeStyleRun(style, Len(text)))]

\* if (text.length > 0) { result.text += text; ...; result.style.push(styleRun) }
pushText(res, style, text) ==
  IF Len(text) > 0
  THEN [text |-> res.text \o text, style |-> Append(res.style, makeStyleRun(style, Len(text)))]
  ELSE res

\* The current style kept from the line parsed before.
lineStartStyle_carried(previous) == previous

\* parseAnsiLine declares its current style anew on every call.
lineStartStyle(previous) == DefaultStyle

\* "If no styles were added, add a default style run", then return result.
finishLine(res) ==
  IF Len(res.style) = 0 /\ Len(res.text) > 0
  THEN Line(res.text, TRUE, <<Plain(Len(res.text))>>)
  ELSE Line(res.text, TRUE, res.style)

(***************************************************************************)
(* Requests and screens the handlers are run on.                           *)
(***************************************************************************)
Letters == <<"A", "B", "C", "D", "E", "F", "G", "H">>
Prefix(n) == [k \in 1..n |-> Letters[k]]
Padded(n) == [k \in 1..n |-> IF k = n THEN " " ELSE Letters[k]]

\* The style runs the parser produces for a text: none for an empty text,
\* one default run ("plain"), or a bold red first column followed by an
\* italic underlined rest with a background ("mixed").
StyleOf(text, kind) ==
  IF Len(text) = 0 THEN <<>>
  ELSE IF kind = "plain" THEN <<Plain(Len(text))>>
  ELSE IF Len(text) = 1 THEN <<StyleRun(1, TRUE, FALSE, FALSE, Std(1), NoColor)>>
  ELSE <<StyleRun(1, TRUE, FALSE, FALSE, Std(1), NoColor),
         StyleRun(Len(text) - 1, FALSE, TRUE, TRUE, AltDefault, TrueColor(1, 2, 3))>>

Styled(text, kind) == Line(text, TRUE, StyleOf(text, kind))
Unstyled(text) == Line(text, FALSE, <<>>)

\* A line of n columns, one run per column, run k coloured by colourOf[k].
Rainbow(n, flavour) ==
  Line(Repeat("x", n), TRUE,
       [k \in 1..n |->
          CASE flavour = "fg" -> StyleRun(1, FALSE, FALSE, FALSE, Std(15 + k), NoColor)
            [] flavour = "bg" -> StyleRun(1, FALSE, FALSE, FALSE, NoColor, Std(15 + k))
            [] flavour = "both" ->
                 StyleRun(1, FALSE, FALSE, FALSE, Std(15 + k), Std(15 + ((k + 1) % 4)))
            [] OTHER -> StyleRun(1, FALSE, FALSE, FALSE, TrueColor(k, 2 * k, 0), NoColor)])

LayerSets ==
  {{"text", "cursor"},
   {"text", "fgColors", "bgColors", "styles", "bold"},
   {"cursor", "styles", "italic", "underline"},
   {"text", "fgColors"},
   {"text", "cursor", "fgColors", "bgColors", "styles", "bold", "italic", "underline"}}

Params(layers, compact) ==
  [layers |-> layers, compact |-> compact,
   hasRegion |-> FALSE, hasLeft |-> FALSE, left |-> 0, hasTop |-> FALSE, top |-> 0,
   width |-> 0, height |-> 0, hasAround |-> FALSE, aroundCursor |-> 0]

Full(layers, compact) == Params(layers, compact)

Around(layers, compact, n) ==
  [Params(layers, compact) EXCEPT !.hasAround = TRUE, !.aroundCursor = n]

\* left / top = -1 stand for a region object without that property.
Region(q, left, top, width, height) ==
  [q EXCEPT !.hasRegion = TRUE, !.hasLeft = (left >= 0), !.left = Max(left, 0),
            !.hasTop = (top >= 0), !.top = Max(top, 0),
            !.width = width, !.height = height]

Scenario(b, w, h, cx, cy, ls, p) ==
  [backend |-> b, terminal |-> [width |-> w, height |-> h],
   cursor |-> [x |-> cx, y |-> cy], lines |-> ls, params |-> p]

NoViewport == Viewport("none", 0, 0, 0, 0)
NoFrame == Frame([width |-> 0, height |-> 0], NoViewport, {}, NoLayers, {}, {})

InitWith(s) ==
  /\ backend = s.backend
  /\ terminal = s.terminal
  /\ cursor = s.cursor
  /\ lines = s.lines
  /\ params = s.params
  /\ pc = "ready"
  /\ error = "none"
  /\ viewport = NoViewport
  /\ pre = NoFrame
  /\ response = NoFrame
  /\ pane = <<>>
  /\ rawLines = <<>>
  /\ lineNo = 0
  /\ parts = <<>>
  /\ partNo = 0
  /\ currentStyle = DefaultStyle
  /\ result = EmptyResult
  /\ parsedLines = <<>>
  /\ AuxIdle

Backends == {"iterm", "tmux"}

\* Screens of up to MaxRows rows.
ScreensOf(lineSet) == UNION {[1..h -> lineSet] : h \in 1..MaxRows}

RowLines == {Styled(Prefix(2), "mixed"), Styled(<<" ">>, "plain"), Styled(<<>>, "plain")}

\* Rows: every vertical placement of the viewport on small screens.
RowViewports(layers, compact, h) ==
  {Full(layers, compact)}
  \cup {Around(layers, compact, n) : n \in 0..MaxAround}
  \cup {Region(q, 0, top, MaxCols, height) :
          q \in {Full(layers, compact), Around(layers, compact, 0)},
          top \in -1..MaxRows, height \in -1..(MaxRows + 1)}

InitRows ==
  \E ls \in ScreensOf(RowLines), b \in Backends, layers \in LayerSets, compact \in BOOLEAN :
    \E cy \in 0..(Len(ls) - 1), p \in RowViewports(layers, compact, Len(ls)) :
      InitWith(Scenario(b, MaxCols, Len(ls), 0, cy, ls, p))

ColumnTexts == {Prefix(k) : k \in 0..MaxCols} \cup {<<" ">>, Padded(2)}

ColumnLines(b) ==
  {Styled(t, kind) : t \in ColumnTexts, kind \in {"plain", "mixed"}}
  \cup (IF b = "iterm" THEN {Unstyled(Prefix(2)), Unstyled(<<>>)} ELSE {})

ColumnViewports(layers, compact) ==
  {Full(layers, compact)}
  \cup {Region(Full(layers, compact), left, 0, width, 1) :
          left \in -1..MaxCols, width \in -1..(MaxCols + 1)}

\* Columns: every horizontal placement of the viewport on one-row screens.
InitColumns ==
  \E b \in Backends, layers \in LayerSets, compact \in BOOLEAN :
    \E line \in ColumnLines(b), p \in ColumnViewports(layers, compact) :
      \E w \in Max(1, Len(line.text))..MaxCols :
        InitWith(Scenario(b, w, 1, 0, 0, <<line>>, p))

\* A cursor outside the terminal is looked at in full and region mode only.
CursorViewports(cy) ==
  {Full({"text", "cursor"}, FALSE)}
  \cup {Around({"text", "cursor"}, FALSE, n) : n \in IF cy < MaxRows THEN 0..MaxAround ELSE {}}
  \cup {Region(Full({"text", "cursor"}, FALSE), left, top, width, height) :
          left \in 0..1, top \in 0..1, width \in 1..MaxCols, height \in 1..MaxRows}

\* Cursor: every cursor position, inside and outside the viewport.
InitCursor ==
  \E b \in Backends, cx \in 0..(MaxCols + 1), cy \in 0..(MaxRows + 1) :
    \E p \in CursorViewports(cy) :
      InitWith(Scenario(b, MaxCols, MaxRows, cx, cy,
                        [k \in 1..MaxRows |-> Styled(Prefix(MaxCols), "plain")], p))

PaletteViewports ==
  {Full(layers, FALSE) : layers \in {{"fgColors"}, {"text", "fgColors", "bgColors"}}}
  \cup {Region(Full({"text", "fgColors", "bgColors"}, FALSE), 1, 0, 2, 1),
        Region(Full({"text", "bgColors"}, FALSE), 0, 1, 2, 1)}

\* Palette: screens whose runs carry up to MaxColors distinct colours.
InitPalette ==
  \E b \in Backends, n \in 0..MaxColors, flavour \in {"fg", "bg", "both", "rgb"},
     p \in PaletteViewports :
    InitWith(Scenario(b, n + 1, 2, 0, 0, <<Rainbow(n, flavour), Styled(Prefix(2), "mixed")>>, p))

\* Scrolled: a terminal of 10 columns by 2 rows whose cursor row comes from
\* the screen contents and whose size comes from a separate query, so the
\* cursor row may lie beyond the reported height.
InitScrolled ==
  \E b \in Backends, layers \in LayerSets, cy \in 0..5, n \in 0..2 :
    InitWith(Scenario(b, 10, 2, 0, cy,
                      <<Styled(Prefix(MaxCols), "plain"), Styled(Prefix(1), "plain")>>,
                      Around(layers, FALSE, n)))

\* A line "AB" whose first column carries the given attributes.
AttrLine(bold, italic, underline) ==
  Line(Prefix(2), TRUE, <<StyleRun(1, bold, italic, underline, NoColor, NoColor), Plain(1)>>)

\* Attributes: every combination of bold, italic and underline.
InitAttributes ==
  \E b \in Backends, bold \in BOOLEAN, italic \in BOOLEAN, underline \in BOOLEAN,
     layers \in {ls \in LayerSets : "styles" \in ls}, left \in -1..1 :
    InitWith(Scenario(b, MaxCols, 1, 0, 0, <<AttrLine(bold, italic, underline)>>,
                      IF left < 0 THEN Full(layers, FALSE)
                      ELSE Region(Full(layers, FALSE), left, 0, MaxCols, 1)))

\* Tall: the cursor on every row of terminals of up to MaxRows + 2 rows,
\* shown with up to MaxAround + 2 rows on either side.
InitTall ==
  \E b \in Backends, h \in 1..(MaxRows + 2), n \in 0..(MaxAround + 2) :
    \E cy \in 0..(h - 1) :
      InitWith(Scenario(b, MaxCols, h, 0, cy, [k \in 1..h |-> Styled(Prefix(1), "plain")],
                        Around({"text", "cursor"}, FALSE, n)))

(***************************************************************************)
(* The state machine: one screenshot request, served by the handler of     *)
(* the terminal's backend.                                                 *)
(***************************************************************************)
Init ==
  \/ InitRows \/ InitColumns \/ InitCursor \/ InitPalette \/ InitScrolled \/ InitAttributes
  \/ InitTall

\* mcpretentious-screenshot on an iTerm2 terminal; safeExecute turns a
\* thrown exception into an error response.
ScreenshotITerm ==
  /\ pc = "ready"
  /\ backend = "iterm"
  /\ LET r == iTermResponse(terminal, cursor, lines, params)
     IN  /\ viewport' = calculateViewport(terminal, cursor, params)
         /\ error' = r.err
         /\ IF r.err # "none"
            THEN /\ pc' = "error"
                 /\ UNCHANGED <<pre, response>>
            ELSE /\ pc' = "done"
                 /\ pre' = r.frame
                 /\ response' = IF params.compact /\ "text" \in DOMAIN r.frame.rows
                                THEN applyCompactMode(r.frame)
                                ELSE r.frame
  /\ UNCHANGED <<backend, terminal, cursor, lines, params>>
  /\ UNCHANGED parserVars
  /\ UNCHANGED auxVars

\* mcpretentious-screenshot on a tmux terminal: TmuxBackend.getScreenshot.
ScreenshotTmux ==
  /\ pc = "ready"
  /\ backend = "tmux"
  /\ LET r == tmuxResponse(terminal, cursor, lines, params)
     IN  /\ viewport' = tmuxViewport(terminal, cursor, params)
         /\ error' = r.err
         /\ pc' = "done"
         /\ pre' = r.frame
         /\ response' = IF params.compact THEN tmuxCompact(r.frame) ELSE r.frame
  /\ UNCHANGED <<backend, terminal, cursor, lines, params>>
  /\ UNCHANGED parserVars
  /\ UNCHANGED auxVars

Next == ScreenshotITerm \/ ScreenshotTmux

Spec == Init /\ [][Next]_vars

TypeOK ==
  /\ backend \in Backends
  /\ pc \in {"ready", "done", "error"}
  /\ error \in {"none", "PaletteOverflow", "RangeError"}
  /\ pc = "error" <=> error # "none"

(***************************************************************************)
(* The parser's state machine: parseAnsiScreen over the raw lines that     *)
(* capture-pane -e prints for a pane.  A pane line is a sequence of        *)
(* tokens: a text segment, or an attribute change printed as the SGR       *)
(* sequence ESC [ code ; ... ; code m.                                     *)
(***************************************************************************)
Text(chars) == [kind |-> "text", chars |-> chars, codes |-> <<>>]
Sgr(codes) == [kind |-> "sgr", chars |-> <<>>, codes |-> codes]

\* The codes of a sequence in decimal, separated by ';'.
RECURSIVE joinCodes(_)
joinCodes(codes) ==
  IF Len(codes) = 1 THEN DecimalString(codes[1])
  ELSE DecimalString(Head(codes)) \o <<";">> \o joinCodes(Tail(codes))

\* The raw line printed for a pane line.
RECURSIVE Render(_)
Render(tokens) ==
  IF tokens = <<>> THEN <<>>
  ELSE (IF Head(tokens).kind = "text" THEN Head(tokens).chars
        ELSE <<"ESC", "[">> \o joinCodes(Head(tokens).codes) \o <<"m">>)
       \o Render(Tail(tokens))

\* The highest code of SGR_CODES and the highest 256-colour index.
LastSgrCode == 107
LastColorIndex == 255

SingleSequences == {<<c>> : c \in 0..(LastSgrCode + 1)}

\* 38 / 48 followed by fewer parameters than the 5;n or 2;r;g;b form needs.
TruncatedSequences ==
  UNION {{<<c>>, <<c, 5>>, <<c, 2>>, <<c, 7>>}
         \cup {<<c, 2, r>> : r \in {0, 1, 4, 200}}
         \cup {<<c, 2, r, g>> : r \in {1, 200}, g \in {3, 31, 200}} : c \in {38, 48}}

ExtendedSequences ==
  {<<c, 5, n>> : c \in {38, 48}, n \in {0, 9, 16, 231, 232, LastColorIndex,
                                        LastColorIndex + 1, LastColorIndex + 45}}
  \cup {<<c, 2, r, 2, 3>> : c \in {38, 48}, r \in {0, 1, LastColorIndex, LastColorIndex + 1}}

MultiSequences ==
  {<<0, 1, 31>>, <<1, 31>>, <<31, 0>>, <<1, 0>>, <<0, 38, 5, 9>>, <<1, 3, 4>>,
   <<1, 22>>, <<31, 39>>, <<39, 31>>, <<41, 49>>, <<1, 31, 44>>, <<99, 1>>,
   <<38, 5, 9, 1>>, <<38, 2, 1, 2, 3, 4>>, <<38, 5, 9, 38, 2, 1, 2, 3>>,
   <<31, 38, 2, 10, 20, 30>>, <<41, 48, 2, 10, 20, 30>>, <<31, 38, 5, 9>>,
   <<38, 2, 10, 20, 30, 38, 5, 9>>, <<48, 5, 9, 3, 4>>}

SetupSequences ==
  {<<1>>, <<3, 4>>, <<31>>, <<1, 3, 4, 91, 101>>, <<38, 2, 1, 2, 3>>}

\* parseAnsiScreen is called with the raw lines of a pane and
\* parseAnsiLine entered for the first of them.
AnsiInitWith(screen) ==
  /\ backend = "tmux"
  /\ terminal = [width |-> 0, height |-> 0]
  /\ cursor = [x |-> 0, y |-> 0]
  /\ lines = <<>>
  /\ params = Full({"text"}, FALSE)
  /\ pc = "parsing"
  /\ error = "none"
  /\ viewport = NoViewport
  /\ pre = NoFrame
  /\ response = NoFrame
  /\ pane = screen
  /\ rawLines = [k \in 1..Len(screen) |-> Render(screen[k])]
  /\ lineNo = 1
  /\ parts = split(Render(screen[1]))
  /\ partNo = 0
  /\ currentStyle = lineStartStyle(DefaultStyle)
  /\ result = EmptyResult
  /\ parsedLines = <<>>
  /\ AuxIdle

\* Codes: one line, a sequence after some attributes have been set.
InitAnsiCodes ==
  \E a \in SetupSequences,
     b \in SingleSequences \cup TruncatedSequences \cup ExtendedSequences \cup MultiSequences,
     m \in 0..1, n \in 0..MaxSegment :
    AnsiInitWith(<<<<Sgr(a), Text(Prefix(m)), Sgr(b), Text(Prefix(n))>>>>)

\* Indexed: every index of the 256-colour form, at the start of a line.
InitAnsiIndexed ==
  \E c \in {38, 48}, i \in 0..LastColorIndex, m \in 0..1 :
    AnsiInitWith(<<<<Text(Prefix(m)), Sgr(<<c, 5, i>>), Text(Prefix(MaxSegment))>>>>)

ScreenLines ==
  {<<>>,
   <<Text(Prefix(MaxSegment))>>,
   <<Sgr(<<1, 31>>), Text(Prefix(MaxSegment))>>,
   <<Sgr(<<3>>), Text(Prefix(1)), Sgr(<<48, 5, 9>>)>>,
   <<Sgr(<<1, 31>>), Text(<<"A", "B">>), Sgr(<<0>>), Text(<<"C", "D">>)>>,
   <<Sgr(<<4>>), Sgr(<<39>>)>>}

\* Screens: several lines, the earlier ones ending with attributes set.
InitAnsiScreens ==
  \E h \in 1..MaxScreen : \E screen \in [1..h -> ScreenLines] : AnsiInitWith(screen)

AnsiInit == InitAnsiCodes \/ InitAnsiIndexed \/ InitAnsiScreens

\* parseAnsiLine, loop body for an even i: a text part.
ParseText ==
  /\ pc = "parsing"
  /\ partNo < Len(parts)
  /\ partNo % 2 = 0
  /\ result' = pushText(result, currentStyle, parts[partNo + 1])
  /\ partNo' = partNo + 1
  /\ UNCHANGED <<pane, rawLines, lineNo, parts, currentStyle, parsedLines, lines, pc>>
  /\ UNCHANGED frameVars
  /\ UNCHANGED auxVars

\* parseAnsiLine, loop body for an odd i: an escape sequence.
ParseSequence ==
  /\ pc = "parsing"
  /\ partNo < Len(parts)
  /\ partNo % 2 = 1
  /\ currentStyle' = applyAttrs(currentStyle, parseSGR(parts[partNo + 1]))
  /\ partNo' = partNo + 1
  /\ UNCHANGED <<pane, rawLines, lineNo, parts, result, parsedLines, lines, pc>>
  /\ UNCHANGED frameVars
  /\ UNCHANGED auxVars

\* parseAnsiLine returns; lines.map goes on to the next raw line or
\* parseAnsiScreen returns the parsed lines as the screen's lines.
EndLine ==
  /\ pc = "parsing"
  /\ partNo = Len(parts)
  /\ parsedLines' = Append(parsedLines, finishLine(result))
  /\ IF lineNo < Len(rawLines)
     THEN /\ lineNo' = lineNo + 1
          /\ parts' = split(rawLines[lineNo + 1])
          /\ partNo' = 0
          /\ currentStyle' = lineStartStyle(currentStyle)
          /\ result' = EmptyResult
          /\ UNCHANGED <<lines, pc>>
     ELSE /\ pc' = "parsed"
          /\ lines' = parsedLines'
          /\ UNCHANGED <<lineNo, parts, partNo, currentStyle, result>>
  /\ UNCHANGED <<pane, rawLines>>
  /\ UNCHANGED frameVars
  /\ UNCHANGED auxVars

AnsiNext == ParseText \/ ParseSequence \/ EndLine

AnsiSpec == AnsiInit /\ [][AnsiNext]_vars

(***************************************************************************)
(* Properties of the encoded frame.                                        *)
(***************************************************************************)
rowLayers == {"text", "fgColors", "bgColors", "styles", "bold", "italic", "underline"}

\* The viewport is a rectangle: neither its width nor its height is negative.
ProperViewport == viewport.width >= 0 /\ viewport.height >= 0

\* C1: before compaction every row-oriented layer present in the frame has
\* exactly viewport.height rows, whatever the buffer length, the cursor and
\* the viewport; rows past the last captured line are filled, not omitted.
RowCountIsViewportHeight ==
  (pc = "done" /\ ProperViewport) =>
    \A l \in DOMAIN pre.rows : Len(pre.rows[l]) = viewport.height

\* C2: all row-oriented layers present in a frame have the same number of
\* rows as each other, before and after compaction.
RowCountsMatch ==
  pc = "done" =>
    /\ DOMAIN response.rows = DOMAIN pre.rows
    /\ DOMAIN pre.rows \subseteq rowLayers
    /\ \A l1, l2 \in DOMAIN pre.rows :
         /\ Len(pre.rows[l1]) = Len(pre.rows[l2])
         /\ Len(response.rows[l1]) = Len(response.rows[l2])

\* A compacting request with several layers, some rows dropped, some kept.
RowCountsMatchWitness ==
  /\ pc = "done"
  /\ params.compact
  /\ Cardinality(DOMAIN response.rows) >= 4
  /\ \E l \in DOMAIN response.rows :
       Len(response.rows[l]) > 0 /\ Len(response.rows[l]) < Len(pre.rows[l])

\* The rows of the text layer that hold a character other than a space.
KeptRows(text) == {k \in 1..Len(text) : \E c \in 1..Len(text[k]) : text[k][c] # " "}

\* The i-th smallest element of a set of indices.
IthOf(S, i) == CHOOSE k \in S : Cardinality({j \in S : j <= k}) = i

\* C3: compaction keeps, in every row-oriented layer present, exactly the
\* rows whose text row is non-empty after trimming, in their original
\* order, so row i of every layer describes the terminal row of text row i.
CompactionKeepsNonEmptyRows ==
  (pc = "done" /\ params.compact /\ "text" \in DOMAIN pre.rows) =>
    LET kept == KeptRows(pre.rows["text"])
    IN  \A l \in DOMAIN pre.rows :
          /\ l \in DOMAIN response.rows
          /\ Len(response.rows[l]) = Cardinality(kept)
          /\ \A i \in 1..Cardinality(kept) :
               response.rows[l][i] = pre.rows[l][IthOf(kept, i)]

\* Compaction dropped a whitespace-only row that precedes a kept row, in a
\* frame with colour and style layers.
CompactionWitness ==
  /\ pc = "done"
  /\ params.compact
  /\ {"text", "fgColors", "styles"} \subseteq DOMAIN pre.rows
  /\ Len(pre.rows["text"]) = 2
  /\ pre.rows["text"][1] = <<" ">>
  /\ Len(response.rows["styles"]) = 1

\* The hex string of a colour value, Null for the terminal default.
HexOf(c) ==
  IF c.tag = "rgb" THEN rgbToHex(Rgb(c.red, c.green, c.blue))
  ELSE IF c.tag = "std" THEN rgbToHex(color256ToRGB(c.idx))
  ELSE Null

\* The lines of the screen inside the viewport's row range.
InRangeRows == {i \in 1..Len(lines) : viewport.top < i /\ i <= viewport.top + viewport.height}

wantsFg == "fgColors" \in params.layers
wantsBg == "bgColors" \in params.layers

\* The colours of the requested colour layers in the scan order of the
\* palette pass: rows top to bottom, runs left to right, foreground first.
RunColours(styleRun) ==
  (IF wantsFg THEN <<HexOf(styleRun.fg)>> ELSE <<>>)
  \o (IF wantsBg THEN <<HexOf(styleRun.bg)>> ELSE <<>>)

ScanOrder ==
  Join([i \in 1..Len(lines) |->
          IF i \in InRangeRows /\ lines[i].hasStyle
          THEN Join([r \in 1..Len(lines[i].style) |-> RunColours(lines[i].style[r])])
          ELSE <<>>])

\* The distinct non-default colours of the viewport's style runs.
ColoursOf(scan) == {scan[k] : k \in 1..Len(scan)} \ {Null}

\* The positions of the scan where a colour is seen for the first time.
FirstsOf(scan) ==
  {k \in 1..Len(scan) : scan[k] # Null /\ \A j \in 1..(k - 1) : scan[j] # scan[k]}

PaletteCapacity == 61

\* C4: with at most 61 distinct non-default colours in the viewport's style
\* runs the colour encode succeeds; with 62 or more it raises the palette
\* overflow error and returns no fgColors, bgColors or colorPalette, in
\* whichever encoder serves the request.
PaletteOverflowIsError ==
  (pc # "ready" /\ (wantsFg \/ wantsBg) /\ ProperViewport) =>
    IF Cardinality(ColoursOf(ScanOrder)) <= PaletteCapacity
    THEN pc = "done"
    ELSE pc = "error" /\ error = "PaletteOverflow"

\* C5: in every colorPalette produced, token '0' maps to null, no two
\* tokens carry the same hex string, no real colour has token '0', and
\* every colour seen has a token.
PaletteIsBijection ==
  pc = "done" =>
    LET seen == ColoursOf(ScanOrder) IN
    \A pal \in response.colorPalette :
      /\ <<"0">> \in DOMAIN pal
      /\ pal[<<"0">>] = Null
      /\ \A t \in DOMAIN pal : t # <<"0">> => pal[t] # Null
      /\ \A t1, t2 \in DOMAIN pal : t1 # t2 => pal[t1] # pal[t2]
      /\ \A h \in seen : \E t \in DOMAIN pal : pal[t] = h

\* The palette alphabet 1-9, a-z, A-Z.
TokenAlphabet ==
  <<"1","2","3","4","5","6","7","8","9">> \o LowerAZ \o UpperAZ

\* C6: the k-th distinct non-default colour of the scan over the in-range
\* rows receives the k-th character of the alphabet 1-9, a-z, A-Z, every
\* token is one character, and fgColors and bgColors share the palette.
TokensInFirstSeenOrder ==
  pc = "done" =>
    LET scan == ScanOrder
        firsts == FirstsOf(scan)
        tokenOf == [k \in firsts |-> <<TokenAlphabet[Cardinality({j \in firsts : j <= k})]>>]
    IN  \A pal \in response.colorPalette :
          /\ DOMAIN pal = {<<"0">>} \cup {tokenOf[k] : k \in firsts}
          /\ \A k \in firsts : pal[tokenOf[k]] = scan[k]

\* The run of a style that covers column col (0-based) when the runs from
\* r on start at column 0; 0 when no run covers it.
RECURSIVE RunAt(_, _, _)
RunAt(style, r, col) ==
  IF r > Len(style) THEN 0
  ELSE IF col < style[r].repeats THEN r
  ELSE RunAt(style, r + 1, col - style[r].repeats)

\* The colour of the run covering a screen column (0-based), Null when the
\* line has no run there.
ColourAt(line, col, isBackground) ==
  LET r == IF line.hasStyle THEN RunAt(line.style, 1, col) ELSE 0
  IN  IF r = 0 THEN Null
      ELSE HexOf(IF isBackground THEN line.style[r].bg ELSE line.style[r].fg)

\* C7: every fgColors/bgColors row is exactly viewport.width characters,
\* and column c holds the palette token of the run covering screen column
\* viewport.left + c, or '0' where no run or a default-coloured run covers it.
ColourRowsFollowRuns ==
  (pc = "done" /\ ProperViewport) =>
    \A l \in DOMAIN pre.rows \cap {"fgColors", "bgColors"} :
      \A k \in 1..Len(pre.rows[l]) :
        /\ Len(pre.rows[l][k]) = viewport.width
        /\ \A c \in 1..Len(pre.rows[l][k]) :
             LET h == ColourAt(lines[viewport.top + k], viewport.left + c - 1, l = "bgColors")
                 ch == pre.rows[l][k][c]
             IN  IF h = Null THEN ch = "0"
                 ELSE \E pal \in pre.colorPalette :
                        <<ch>> \in DOMAIN pal /\ pal[<<ch>>] = h

\* text[left : left + width]
TextSlice(text, left, width) ==
  [c \in 1..(Min(Len(text), left + width) - left) |-> text[left + c]]

\* C8: in region mode every emitted text row equals text[left : left+width]
\* of its line, also for left = 0 with a width below the line length, on
\* both paths.
TextRowsAreSlices ==
  (pc = "done" /\ viewport.mode = "region" /\ ProperViewport /\ "text" \in DOMAIN pre.rows) =>
    \A k \in 1..Len(pre.rows["text"]) :
      pre.rows["text"][k] =
        TextSlice(lines[viewport.top + k].text, viewport.left, viewport.width)

\* C9: the cursor layer reports the terminal coordinates unchanged, and the
\* coordinates relative to the viewport when they lie inside it, (-1, -1)
\* otherwise, on every handler path.
CursorIsRelativeOrSentinel ==
  (pc = "done" /\ ProperViewport /\ "cursor" \in params.layers) =>
    LET relLeft == cursor.x - viewport.left
        relTop == cursor.y - viewport.top
        inside == /\ 0 <= relLeft /\ relLeft < viewport.width
                  /\ 0 <= relTop /\ relTop < viewport.height
    IN  response.cursor =
          {[left |-> cursor.x, top |-> cursor.y,
            relLeft |-> IF inside THEN relLeft ELSE -1,
            relTop |-> IF inside THEN relTop ELSE -1]}

\* C10: the viewport is the requested region when there is one (left and
\* top defaulting to 0, width and height unclamped), else the rows around
\* the cursor when aroundCursor = N is given (top = max(0, cursorY - N),
\* height = min(terminalHeight, 2N + 1), full width), else the full screen.
ViewportModePriority ==
  pc # "ready" =>
    IF params.hasRegion THEN
      /\ viewport.mode = "region"
      /\ viewport.left = (IF params.hasLeft THEN params.left ELSE 0)
      /\ viewport.top = (IF params.hasTop THEN params.top ELSE 0)
      /\ viewport.width = params.width
      /\ viewport.height = params.height
    ELSE IF params.hasAround THEN
      /\ viewport.mode = "aroundCursor"
      /\ viewport.left = 0
      /\ viewport.width = terminal.width
      /\ viewport.top = (IF cursor.y - params.aroundCursor > 0
                         THEN cursor.y - params.aroundCursor ELSE 0)
      /\ viewport.height = (IF terminal.height < 2 * params.aroundCursor + 1
                            THEN terminal.height ELSE 2 * params.aroundCursor + 1)
    ELSE viewport = Viewport("full", 0, 0, terminal.width, terminal.height)

\* A request carrying both a region (without left) and aroundCursor was
\* served in region mode with a size beyond the terminal.
ViewportModeWitness ==
  /\ pc = "done"
  /\ params.hasRegion /\ params.hasAround /\ ~params.hasTop
  /\ viewport.mode = "region"
  /\ viewport.height > terminal.height

(***************************************************************************)
(* Properties of the viewport calculator on a given request.               *)
(***************************************************************************)
\* The request of the scenario: a 10 x 2 terminal, the cursor at (0, 5),
\* aroundCursor = 2 and no region.
ScenarioB ==
  /\ pc \in {"done", "error"}
  /\ terminal = [width |-> 10, height |-> 2]
  /\ cursor = [x |-> 0, y |-> 5]
  /\ ~params.hasRegion /\ params.hasAround /\ params.aroundCursor = 2

\* C11 as stated: on a 10 x 2 terminal with the cursor at (0, 5) and
\* aroundCursor = 2 the viewport has top = 3, height = 5, left = 0, width = 10.
AroundCursorScenarioHeight5 ==
  ScenarioB =>
    /\ viewport.top = 3 /\ viewport.height = 5
    /\ viewport.left = 0 /\ viewport.width = 10

\* C11 as amended: on a 10 x 2 terminal with the cursor at (0, 5) and
\* aroundCursor = 2 the viewport has top = 3, left = 0, width = 10 and the
\* height min(2, 2 * 2 + 1) = 2 of the terminal.
AroundCursorScenarioClamped ==
  ScenarioB =>
    /\ viewport.top = 3 /\ viewport.height = 2
    /\ viewport.left = 0 /\ viewport.width = 10

\* The scenario's request was served by the iTerm2 handler.
AroundCursorScenarioWitness ==
  ScenarioB /\ backend = "iterm" /\ pc = "done" /\ viewport.mode = "aroundCursor"

(***************************************************************************)
(* Properties of degenerate viewports, style encoding and missing style.   *)
(***************************************************************************)
\* C12: a region request whose width or height is zero or negative is
\* never an error: the encoders return normally and every row-oriented
\* layer of the frame has zero rows.
DegenerateRegionIsEmpty ==
  (pc \in {"done", "error"} /\ params.hasRegion
     /\ (params.width <= 0 \/ params.height <= 0)) =>
    /\ pc = "done"
    /\ \A l \in DOMAIN pre.rows : Len(pre.rows[l]) = 0

\* The character of the combined style layer for each (bold, italic,
\* underline), and the triple each legend entry names.
StyleTable ==
  [t \in BOOLEAN \X BOOLEAN \X BOOLEAN |->
     CASE t = <<FALSE, FALSE, FALSE>> -> "."
       [] t = <<TRUE, FALSE, FALSE>> -> "b"
       [] t = <<FALSE, TRUE, FALSE>> -> "i"
       [] t = <<FALSE, FALSE, TRUE>> -> "u"
       [] t = <<TRUE, TRUE, FALSE>> -> "I"
       [] t = <<TRUE, FALSE, TRUE>> -> "U"
       [] t = <<FALSE, TRUE, TRUE>> -> "J"
       [] t = <<TRUE, TRUE, TRUE>> -> "X"]

LegendMeaning(name) ==
  CASE name = "null" -> <<FALSE, FALSE, FALSE>>
    [] name = "bold" -> <<TRUE, FALSE, FALSE>>
    [] name = "italic" -> <<FALSE, TRUE, FALSE>>
    [] name = "underline" -> <<FALSE, FALSE, TRUE>>
    [] name = "bold+italic" -> <<TRUE, TRUE, FALSE>>
    [] name = "bold+underline" -> <<TRUE, FALSE, TRUE>>
    [] name = "italic+underline" -> <<FALSE, TRUE, TRUE>>
    [] name = "bold+italic+underline" -> <<TRUE, TRUE, TRUE>>

\* The attributes of the run covering a screen column (0-based), none
\* where the line has no run.
AttributesAt(line, col) ==
  LET r == IF line.hasStyle THEN RunAt(line.style, 1, col) ELSE 0
  IN  IF r = 0 THEN <<FALSE, FALSE, FALSE>>
      ELSE <<line.style[r].bold, line.style[r].italic, line.style[r].underline>>

\* C13: the combined style encoding is a bijection between the 8 values of
\* (bold, italic, underline) and '.', 'b', 'i', 'u', 'I', 'U', 'J', 'X';
\* every emitted character is the table's character for the attributes of
\* its column and the style legend decodes it back to them, on both paths.
StyleCharsDecode ==
  (pc = "done" /\ "styles" \in DOMAIN pre.rows) =>
    /\ Cardinality(pre.styleLegend) = 1
    /\ \A leg \in pre.styleLegend :
         /\ DOMAIN leg = {StyleTable[t] : t \in DOMAIN StyleTable}
         /\ \A t \in DOMAIN StyleTable : LegendMeaning(leg[StyleTable[t]]) = t
         /\ \A k \in 1..Len(pre.rows["styles"]) :
              \A c \in 1..Len(pre.rows["styles"][k]) :
                /\ pre.rows["styles"][k][c] \in DOMAIN leg
                /\ ProperViewport =>
                     LET t == AttributesAt(lines[viewport.top + k], viewport.left + c - 1)
                         ch == pre.rows["styles"][k][c]
                     IN  ch = StyleTable[t] /\ LegendMeaning(leg[ch]) = t

\* A bold and underlined column was encoded in the combined style layer.
StyleCharsWitness ==
  /\ pc = "done"
  /\ "styles" \in DOMAIN pre.rows
  /\ Len(pre.rows["styles"]) = 1
  /\ Len(pre.rows["styles"][1]) >= 1
  /\ pre.rows["styles"][1][1] = "U"
  /\ lines[1].style[1].bold /\ ~lines[1].style[1].italic /\ lines[1].style[1].underline

(***************************************************************************)
(* Properties of the parser.                                               *)
(***************************************************************************)
\* The style accumulator as the style runs show it: the attributes, and
\* for each colour either a standard index, an RGB value or the default.
Shown(c) == IF c.tag \in {"none", "alt"} THEN NoColor ELSE c
ShownStyle(bold, italic, underline, fg, bg) ==
  [bold |-> bold, italic |-> italic, underline |-> underline, fg |-> Shown(fg), bg |-> Shown(bg)]
ShownOf(style) ==
  ShownStyle(style.bold, style.italic, style.underline,
             runColor(style.fgColor, style.fgStandard, style.fgAlternate),
             runColor(style.bgColor, style.bgStandard, style.bgAlternate))
ShownDefault == ShownStyle(FALSE, FALSE, FALSE, NoColor, NoColor)

\* The effect of one parameter code on the accumulator: 0 resets, 1/22,
\* 3/23, 4/24 set and clear bold, italic, underline, 30-37 / 90-97 and
\* 40-47 / 100-107 select standard colours 0-7 / 8-15, 39 and 49 select
\* the default colours; any other code changes nothing.
CodeEffect(s, code) ==
  CASE code = 0 -> ShownDefault
    [] code = 1 -> [s EXCEPT !.bold = TRUE]
    [] code = 22 -> [s EXCEPT !.bold = FALSE]
    [] code = 3 -> [s EXCEPT !.italic = TRUE]
    [] code = 23 -> [s EXCEPT !.italic = FALSE]
    [] code = 4 -> [s EXCEPT !.underline = TRUE]
    [] code = 24 -> [s EXCEPT !.underline = FALSE]
    [] code \in 30..37 -> [s EXCEPT !.fg = Std(code - 30)]
    [] code \in 90..97 -> [s EXCEPT !.fg = Std(code - 90 + 8)]
    [] code \in 40..47 -> [s EXCEPT !.bg = Std(code - 40)]
    [] code \in 100..107 -> [s EXCEPT !.bg = Std(code - 100 + 8)]
    [] code = 39 -> [s EXCEPT !.fg = NoColor]
    [] code = 49 -> [s EXCEPT !.bg = NoColor]
    [] OTHER -> s

\* The codes applied one at a time, left to right.
RECURSIVE CodesEffect(_, _)
CodesEffect(s, codes) ==
  IF codes = <<>> THEN s ELSE CodesEffect(CodeEffect(s, Head(codes)), Tail(codes))

\* The parameter lists of the escape sequences of a pane line, in order.
SequencesOf(tokens) ==
  LET seqs == SelectSeq(tokens, LAMBDA t : t.kind = "sgr")
  IN  [k \in 1..Len(seqs) |-> seqs[k].codes]

\* The sequences of the current line that parseAnsiLine has applied.
Applied == SubSeq(SequencesOf(pane[lineNo]), 1, partNo \div 2)

\* A sequence without the extended-colour introducers 38 and 48.
IsPlainSequence(codes) == \A k \in 1..Len(codes) : codes[k] \notin {38, 48}

\* C14: the codes of a sequence are applied to the accumulator strictly
\* left to right, 0 resetting at its position, so the accumulator after
\* the sequences applied so far is the effect of their codes one at a time
\* and codes that follow a 0 in the same sequence still take effect.
CodesApplyLeftToRight ==
  (pc = "parsing" /\ \A k \in 1..Len(Applied) : IsPlainSequence(Applied[k])) =>
    ShownOf(currentStyle) = CodesEffect(ShownDefault, Join(Applied))

\* The structured line of a raw line without escape sequences.
PlainParse(text) == Line(text, TRUE, IF text = <<>> THEN <<>> ELSE <<Plain(Len(text))>>)

\* C15: the accumulator starts at no attributes and default colours at the
\* beginning of each line, and the structured line of a raw line depends
\* on that line only, not on the lines parsed before it.
LinesParseIndependently ==
  /\ (pc = "parsing" /\ partNo = 0) =>
       (currentStyle = DefaultStyle /\ result = EmptyResult)
  /\ pc = "parsed" =>
       /\ Len(parsedLines) = Len(rawLines)
       /\ \A i, j \in 1..Len(rawLines) :
            rawLines[i] = rawLines[j] => parsedLines[i] = parsedLines[j]
       /\ \A i \in 1..Len(rawLines) :
            SequencesOf(pane[i]) = <<>> => parsedLines[i] = PlainParse(rawLines[i])

\* A line left bold with a foreground colour is followed by a line
\* without escape sequences, which was parsed to one plain run.
LinesParseIndependentlyWitness ==
  /\ pc = "parsed"
  /\ Len(parsedLines) = 2
  /\ parsedLines[1].style # <<>>
  /\ parsedLines[1].style[Len(parsedLines[1].style)].bold
  /\ SequencesOf(pane[2]) = <<>>
  /\ parsedLines[2].style = <<Plain(Len(rawLines[2]))>>

\* The text segments of a pane line, concatenated.
VisibleText(tokens) ==
  Join([k \in 1..Len(tokens) |-> tokens[k].chars])

RECURSIVE SumRepeats(_)
SumRepeats(style) ==
  IF style = <<>> THEN 0 ELSE Head(style).repeats + SumRepeats(Tail(style))

\* C16: the structured line of every raw line has the concatenation of the
\* line's non-escape segments as text, only runs with repeat >= 1, and
\* repeats that sum to the text length; a line without visible text has
\* empty text and no runs.
RunsCoverText ==
  pc = "parsed" =>
    \A i \in 1..Len(pane) :
      /\ parsedLines[i].text = VisibleText(pane[i])
      /\ \A k \in 1..Len(parsedLines[i].style) : parsedLines[i].style[k].repeats >= 1
      /\ SumRepeats(parsedLines[i].style) = Len(parsedLines[i].text)
      /\ VisibleText(pane[i]) = <<>> =>
           (parsedLines[i].text = <<>> /\ parsedLines[i].style = <<>>)

\* A line of escape sequences only parsed to no text and no runs, beside a
\* line whose two text segments gave two runs.
RunsCoverTextWitness ==
  /\ pc = "parsed"
  /\ \E i \in 1..Len(pane) :
       /\ SequencesOf(pane[i]) # <<>>
       /\ parsedLines[i].text = <<>> /\ parsedLines[i].style = <<>>
  /\ \E j \in 1..Len(pane) :
       /\ Len(parsedLines[j].style) = 2
       /\ Len(parsedLines[j].text) = 4

\* The codes parseSGR has a case for.
KnownCodes ==
  {0, 1, 3, 4, 22, 23, 24, 38, 39, 48, 49}
  \cup (30..37) \cup (40..47) \cup (90..97) \cup (100..107)

\* A sequence of unknown codes only, or 38 / 48 followed by fewer
\* parameters than the form 5;n or 2;r;g;b needs.
IsMalformed(codes) ==
  \/ \A k \in 1..Len(codes) : codes[k] \notin KnownCodes
  \/ /\ codes[1] \in {38, 48}
     /\ \/ Len(codes) = 1
        \/ codes[2] = 5 /\ Len(codes) = 2
        \/ codes[2] = 2 /\ Len(codes) \in 2..4

\* The accumulator after a list of sequences when the malformed ones are
\* ignored.
RECURSIVE IgnoringMalformed(_, _)
IgnoringMalformed(style, seqs) ==
  IF seqs = <<>> THEN style
  ELSE IgnoringMalformed(
         IF IsMalformed(Head(seqs)) THEN style
         ELSE applyAttrs(style, sgrLoop(Head(seqs), 0, NoAttrs)),
         Tail(seqs))

\* C17: an unknown code or a truncated extended-colour sequence leaves
\* every field of the accumulator as it was, and the text and sequences
\* after it on the line are still parsed.
MalformedIsIgnored ==
  /\ pc = "parsing" => currentStyle = IgnoringMalformed(DefaultStyle, Applied)
  /\ pc = "parsed" =>
       \A i \in 1..Len(pane) : parsedLines[i].text = VisibleText(pane[i])

\* The runs a pane line should give: one per non-empty text segment, with
\* the effect of the codes that precede it on the line.
RECURSIVE ExpectedRuns(_, _)
ExpectedRuns(tokens, s) ==
  IF tokens = <<>> THEN <<>>
  ELSE IF Head(tokens).kind = "sgr"
    THEN ExpectedRuns(Tail(tokens), CodesEffect(s, Head(tokens).codes))
    ELSE (IF Head(tokens).chars = <<>> THEN <<>>
          ELSE <<[repeats |-> Len(Head(tokens).chars), shown |-> s]>>)
         \o ExpectedRuns(Tail(tokens), s)

ShownRuns(style) ==
  [k \in 1..Len(style) |->
     [repeats |-> style[k].repeats,
      shown |-> ShownStyle(style[k].bold, style[k].italic, style[k].underline,
                           style[k].fg, style[k].bg)]]

\* A sequence of colour and attribute codes, or a reset on its own.
IsTableSequence(codes) ==
  /\ IsPlainSequence(codes)
  /\ (\E k \in 1..Len(codes) : codes[k] = 0) => Len(codes) = 1

\* C18: 30-37 and 90-97 set the foreground to standard index 0-7 and 8-15,
\* 40-47 and 100-107 the background, 39 and 49 reset them to the terminal
\* default, 1/22, 3/23, 4/24 set and clear bold, italic, underline; and
\* ESC[1;31m AB ESC[0m CD parses to ABCD with a bold run of 2 with
\* foreground 1 and a plain run of 2.
ColourCodesFollowTable ==
  pc = "parsed" =>
    \A i \in 1..Len(pane) :
      /\ (\A k \in 1..Len(SequencesOf(pane[i])) : IsTableSequence(SequencesOf(pane[i])[k]))
           => ShownRuns(parsedLines[i].style) = ExpectedRuns(pane[i], ShownDefault)
      /\ rawLines[i] = <<"ESC", "[", "1", ";", "3", "1", "m", "A", "B",
                         "ESC", "[", "0", "m", "C", "D">>
           => parsedLines[i] =
                Line(<<"A", "B", "C", "D">>, TRUE,
                     <<StyleRun(2, TRUE, FALSE, FALSE, Std(1), NoColor), Plain(2)>>)

\* After ESC[31m, the code 101 gave a run with foreground 1 and the
\* bright background 9.
ColourCodesWitness ==
  /\ pc = "parsed"
  /\ SequencesOf(pane[1]) = <<<<31>>, <<101>>>>
  /\ Len(parsedLines[1].style) = 2
  /\ parsedLines[1].style[2].fg = Std(1)
  /\ parsedLines[1].style[2].bg = Std(9)

\* The colour of a 256-colour index: the 16-entry table below 16, the
\* base-6 digits of i - 16 through the levels 0, 95, 135, 175, 215, 255 up
\* to 231, the gray 8 + (i - 232) * 10 from 232 on.
CubeLevel(d) == IF d = 0 THEN 0 ELSE 55 + 40 * d
IndexedColour(i) ==
  IF i < 16 THEN ANSI_TO_RGB[i + 1]
  ELSE IF i <= 231
    THEN Rgb(CubeLevel((i - 16) \div 36), CubeLevel(((i - 16) \div 6) % 6),
             CubeLevel((i - 16) % 6))
    ELSE Rgb(8 + (i - 232) * 10, 8 + (i - 232) * 10, 8 + (i - 232) * 10)

\* The colour the accumulator holds after ESC[38;5;i m or ESC[48;5;i m.
IndexedResult(style, c) == IF c = 38 THEN style.fgColor ELSE style.bgColor

\* C19: color256ToRGB is total on 0..255 with every channel in 0..255:
\* the table below 16, the 6x6x6 cube for 16..231, the gray ramp for
\* 232..255; 0 -> (0,0,0), 16 -> (0,0,0), 231 -> (255,255,255),
\* 232 -> (8,8,8), 255 -> (238,238,238).
IndexedColoursInRange ==
  (pc = "parsing" /\ Len(Applied) = 1 /\ Len(Applied[1]) = 3
     /\ Applied[1][1] \in {38, 48} /\ Applied[1][2] = 5) =>
    LET i == Applied[1][3]
        got == IndexedResult(currentStyle, Applied[1][1])
    IN  /\ got = JsColor(IndexedColour(i))
        /\ got.r \in 0..255 /\ got.g \in 0..255 /\ got.b \in 0..255
        /\ i \in {0, 16} => got = JsRgb(0, 0, 0)
        /\ i = 231 => got = JsRgb(255, 255, 255)
        /\ i = 232 => got = JsRgb(8, 8, 8)
        /\ i = 255 => got = JsRgb(238, 238, 238)

\* ESC[38;5;255m was applied and the foreground is the last gray.
IndexedColoursWitness ==
  /\ pc = "parsing"
  /\ Applied = <<<<38, 5, 255>>>>
  /\ currentStyle.fgColor = JsRgb(238, 238, 238)
  /\ currentStyle.fgStandard = {255}

\* The character a layer is filled with where there is no style.
DefaultFill(l) ==
  IF l \in {"fgColors", "bgColors"} THEN "0" ELSE IF l = "styles" THEN "." ELSE " "

\* The rows of the viewport all lie on lines without style data.
NoStyleInRange == \A i \in InRangeRows : ~lines[i].hasStyle

\* C20: when colour or style layers are requested for lines without style
\* data the encode does not fail and does not omit the layer: each such
\* row is viewport.width characters of '0' (fgColors, bgColors), of '.'
\* (styles) or of spaces (bold, italic, underline).
MissingStyleIsDefaultFilled ==
  /\ (pc \in {"done", "error"} /\ NoStyleInRange
        /\ params.layers \cap styleLayerNames # {}) => pc = "done"
  /\ pc = "done" =>
       \A l \in params.layers \cap styleLayerNames :
         /\ l \in DOMAIN pre.rows
         /\ \A k \in 1..Len(pre.rows[l]) :
              (viewport.top + k \in 1..Len(lines) /\ ~lines[viewport.top + k].hasStyle) =>
                /\ Len(pre.rows[l][k]) = viewport.width
                /\ \A c \in 1..Len(pre.rows[l][k]) : pre.rows[l][k][c] = DefaultFill(l)

(***************************************************************************)
(* Properties of the assembled frame and of the two paths.                 *)
(***************************************************************************)
\* A palette holds a real colour: some token maps to a hex string.
HasRealColour(palette) == \E t \in DOMAIN palette : palette[t] # Null

\* C21: the frame contains colorPalette only when fgColors or bgColors was
\* requested and the palette holds at least one real colour; it contains
\* styleLegend only when the styles layer was requested; a layer field
\* (text included) is present only if that layer was requested.
FieldsOnlyWhenRequested ==
  pc = "done" =>
    /\ \A palette \in response.colorPalette :
         params.layers \cap {"fgColors", "bgColors"} # {} /\ HasRealColour(palette)
    /\ response.styleLegend # {} => "styles" \in params.layers
    /\ DOMAIN response.rows \subseteq params.layers
    /\ response.cursor # {} => "cursor" \in params.layers

\* What the iTerm2 branch of the handler returns for a request: the error
\* kind, or the frame after the compaction step.
iTermOutcome(term, cur, ls, p) ==
  LET r == iTermResponse(term, cur, ls, p)
  IN  IF r.err # "none" THEN [err |-> r.err, frame |-> NoFrame]
      ELSE [err |-> "none",
            frame |-> IF p.compact /\ "text" \in DOMAIN r.frame.rows
                      THEN applyCompactMode(r.frame) ELSE r.frame]

\* What TmuxBackend.getScreenshot returns for the same request.
tmuxOutcome(term, cur, ls, p) ==
  LET r == tmuxResponse(term, cur, ls, p)
  IN  [err |-> "none", frame |-> IF p.compact THEN tmuxCompact(r.frame) ELSE r.frame]

\* C22: the two screenshot paths are equivalent: for the same structured
\* lines, terminal size, cursor, requested layers, region / aroundCursor
\* and compact flag the tmux path produces the same encoded frame (same
\* fields, same row strings, same palette) as the iTerm2 path.
PathsAreEquivalent ==
  pc \in {"done", "error"} =>
    iTermOutcome(terminal, cursor, lines, params) = tmuxOutcome(terminal, cursor, lines, params)

\* C23: with compact = true the returned text layer omits every empty
\* (whitespace-only) row, and every retained text row has its trailing
\* spaces removed.
CompactTrimsTrailingSpaces ==
  (pc = "done" /\ params.compact /\ "text" \in DOMAIN response.rows) =>
    \A k \in 1..Len(response.rows["text"]) :
      LET row == response.rows["text"][k]
      IN  /\ TrimNonEmpty(row)
          /\ row[Len(row)] # " "

(***************************************************************************)
(* The SGR mouse protocol (lib/mouse-sgr-protocol.js).                     *)
(***************************************************************************)
\* Names as strings of the model.
LeftName == <<"l","e","f","t">>
MiddleName == <<"m","i","d","d","l","e">>
RightName == <<"r","i","g","h","t">>
ScrollUpName == <<"s","c","r","o","l","l","U","p">>
ScrollDownName == <<"s","c","r","o","l","l","D","o","w","n">>
ButtonPrefix == <<"b","u","t","t","o","n","-">>
ConstructorName == <<"c","o","n","s","t","r","u","c","t","o","r">>
ToStringName == <<"t","o","S","t","r","i","n","g">>

\* Property names every object literal inherits from Object.prototype.
ObjectPrototype == {ConstructorName, ToStringName}

\* The text a function converts to when it is made part of a string.
FunctionText == <<"function">>

\* const BUTTON_CODES = { 'left': 0, 'middle': 1, 'right': 2, ... }
BUTTON_CODES ==
  [name \in {LeftName, MiddleName, RightName, ScrollUpName, ScrollDownName} |->
     CASE name = LeftName -> 0
       [] name = MiddleName -> 1
       [] name = RightName -> 2
       [] name = ScrollUpName -> 64
       [] name = ScrollDownName -> 65]

\* const MODIFIERS = { 'shift': 4, 'alt': 8, 'ctrl': 16 }
MODIFIERS == [m \in {"shift", "alt", "ctrl"} |->
                CASE m = "shift" -> 4 [] m = "alt" -> 8 [] m = "ctrl" -> 16]

DRAG_MODIFIER == 32

\* The buttonCode variable: a number, NaN, or a function found on the
\* prototype chain.
NumberValue(n) == [kind |-> "number", n |-> n]
NaN == [kind |-> "NaN", n |-> 0]
FunctionValue == [kind |-> "function", n |-> 0]

\* String(n) of an integer / the value as part of a template string.
JsString(v) ==
  CASE v.kind = "number" ->
         (IF v.n < 0 THEN <<"-">> \o DecimalString(0 - v.n) ELSE DecimalString(v.n))
    [] v.kind = "NaN" -> <<"N", "a", "N">>
    [] OTHER -> FunctionText

\* The number of leading characters of s, from position p, that are digits.
RECURSIVE DigitRun(_, _)
DigitRun(s, p) ==
  IF p <= Len(s) /\ s[p] \in {"0","1","2","3","4","5","6","7","8","9"}
  THEN 1 + DigitRun(s, p + 1) ELSE 0

\* parseInt(s) for a string without leading white space and without a
\* 0x prefix: an optional sign, then the longest run of decimal digits.
parseInt(s) ==
  LET signed == s # <<>> /\ s[1] \in {"-", "+"}
      first == IF signed THEN 2 ELSE 1
      n == DigitRun(s, first)
      magnitude == Number(SubSeq(s, first, first + n - 1))
  IN  IF n = 0 THEN NaN
      ELSE NumberValue(IF signed /\ s[1] = "-" THEN 0 - magnitude ELSE magnitude)

\* button.startsWith('button-')
startsWith(s, prefix) == Len(s) >= Len(prefix) /\ SubSeq(s, 1, Len(prefix)) = prefix

\* "Parse button to get numeric code": the exception thrown, or the value
\* of buttonCode.
parseButton(button) ==
  IF button.type = "number" THEN [thrown |-> "none", code |-> NumberValue(button.n)]
  ELSE IF button.type = "string" THEN
    IF button.s \in DOMAIN BUTTON_CODES
      THEN [thrown |-> "none", code |-> NumberValue(BUTTON_CODES[button.s])]
    ELSE IF button.s \in ObjectPrototype
      THEN [thrown |-> "none", code |-> FunctionValue]
    ELSE IF startsWith(button.s, ButtonPrefix) THEN
      LET buttonCode == parseInt(SubSeq(button.s, 8, Len(button.s)))
      IN  IF buttonCode.kind = "NaN" \/ buttonCode.n < 0 \/ buttonCode.n > 127
          THEN [thrown |-> "Invalid button code", code |-> NaN]
          ELSE [thrown |-> "none", code |-> buttonCode]
    ELSE [thrown |-> "Invalid button", code |-> NaN]
  ELSE [thrown |-> "Invalid button type", code |-> NaN]

\* buttonCode += k: addition for a number, string concatenation otherwise
\* (the value stays the text of the function followed by digits).
plus(v, k) == IF v.kind = "number" THEN NumberValue(v.n + k) ELSE v

\* "Apply modifiers" and "Apply drag modifier for drag events".
applyModifiers(code, event, modifiers) ==
  LET c1 == IF "shift" \in modifiers THEN plus(code, MODIFIERS["shift"]) ELSE code
      c2 == IF "alt" \in modifiers THEN plus(c1, MODIFIERS["alt"]) ELSE c1
      c3 == IF "ctrl" \in modifiers THEN plus(c2, MODIFIERS["ctrl"]) ELSE c2
  IN  IF event = "drag" THEN plus(c3, DRAG_MODIFIER) ELSE c3

\* The suffix 'M' whatever the event.
eventSuffix_alwaysPress(event) == "M"

\* const suffix = event === 'release' ? 'm' : 'M'
eventSuffix(event) == IF event = "release" THEN "m" ELSE "M"

generateMouseEvent(event, x, y, button, modifiers) ==
  LET parsed == parseButton(button)
      buttonCode == applyModifiers(parsed.code, event, modifiers)
      protocolX == x + 1
      protocolY == y + 1
  IN  IF parsed.thrown # "none" THEN [thrown |-> parsed.thrown, sequence |-> <<>>]
      ELSE [thrown |-> "none",
            sequence |-> <<"ESC", "[", "<">> \o JsString(buttonCode) \o <<";">>
                         \o JsString(NumberValue(protocolX)) \o <<";">>
                         \o JsString(NumberValue(protocolY)) \o <<eventSuffix(event)>>]

\* The buttons the function is called with.
NumberButton(n) == [type |-> "number", n |-> n, s |-> <<>>]
StringButton(s) == [type |-> "string", n |-> 0, s |-> s]

\* The highest button code of the protocol.
LastButtonCode == 127

NamedButtons == {StringButton(name) : name \in DOMAIN BUTTON_CODES}
CodedButtons ==
  {StringButton(ButtonPrefix \o DecimalString(n)) : n \in {0, 2, 64, 65, LastButtonCode}}
NumberButtons == {NumberButton(n) : n \in {0, 1, 2, 64, 65, LastButtonCode}}
OtherButtons ==
  {StringButton(ButtonPrefix \o DecimalString(LastButtonCode + 1)),
   StringButton(ButtonPrefix \o <<"a", "b", "c">>),
   StringButton(ButtonPrefix \o <<"-", "1">>),
   StringButton(ButtonPrefix),
   StringButton(<<"i","n","v","a","l","i","d">>),
   StringButton(<<"L","e","f","t">>),
   StringButton(<<>>),
   StringButton(ConstructorName),
   StringButton(ToStringName),
   NumberButton(0 - 1),
   NumberButton(LastButtonCode + 1),
   [type |-> "boolean", n |-> 0, s |-> <<>>]}

MouseEvents == {"press", "release", "drag"}
MouseCoordinates == {0, 9, 79}

\* No screenshot requested and no screen being parsed.
ScreenIdle ==
  /\ backend = "tmux"
  /\ terminal = [width |-> 0, height |-> 0]
  /\ cursor = [x |-> 0, y |-> 0]
  /\ lines = <<>>
  /\ params = Full({"text"}, FALSE)
  /\ error = "none"
  /\ viewport = NoViewport
  /\ pre = NoFrame
  /\ response = NoFrame
  /\ pane = <<>>
  /\ rawLines = <<>>
  /\ lineNo = 0
  /\ parts = <<>>
  /\ partNo = 0
  /\ currentStyle = DefaultStyle
  /\ result = EmptyResult
  /\ parsedLines = <<>>

\* A caller is about to generate a mouse event.
MouseInit ==
  \E event \in MouseEvents, x \in MouseCoordinates, y \in MouseCoordinates,
     button \in NamedButtons \cup CodedButtons \cup NumberButtons \cup OtherButtons,
     modifiers \in SUBSET {"shift", "alt", "ctrl"} :
    /\ ScreenIdle
    /\ pc = "mouse"
    /\ mouse = [NoMouse EXCEPT !.event = event, !.x = x, !.y = y, !.button = button,
                               !.modifiers = modifiers]
    /\ typing = NoTyping
    /\ session = NoSession
    /\ calls = <<>>
    /\ manager = NewManager
    /\ attempt = NoAttempt

\* generateMouseEvent(event, x, y, button, modifiers) returns or throws.
GenerateMouseEvent ==
  /\ pc = "mouse"
  /\ LET r == generateMouseEvent(mouse.event, mouse.x, mouse.y, mouse.button, mouse.modifiers)
     IN  /\ mouse' = [mouse EXCEPT !.thrown = r.thrown, !.sequence = r.sequence]
         /\ pc' = IF r.thrown = "none" THEN "returned" ELSE "thrown"
  /\ UNCHANGED <<typing, session, calls, manager, attempt, lines>>
  /\ UNCHANGED frameVars
  /\ UNCHANGED parserVars

MouseNext == GenerateMouseEvent

MouseSpec == MouseInit /\ [][MouseNext]_vars

\* The base code the protocol gives a valid button: the named buttons, a
\* number, or the N of 'button-N'.
ValidButtons == NamedButtons \cup CodedButtons \cup NumberButtons

BaseCode(button) ==
  IF button.type = "number" THEN button.n
  ELSE IF button.s = LeftName THEN 0
  ELSE IF button.s = MiddleName THEN 1
  ELSE IF button.s = RightName THEN 2
  ELSE IF button.s = ScrollUpName THEN 64
  ELSE IF button.s = ScrollDownName THEN 65
  ELSE CHOOSE n \in 0..LastButtonCode : button.s = ButtonPrefix \o DecimalString(n)

ExpectedCode ==
  BaseCode(mouse.button)
  + (IF "shift" \in mouse.modifiers THEN 4 ELSE 0)
  + (IF "alt" \in mouse.modifiers THEN 8 ELSE 0)
  + (IF "ctrl" \in mouse.modifiers THEN 16 ELSE 0)
  + (IF mouse.event = "drag" THEN 32 ELSE 0)

\* C24: generateMouseEvent(event, x, y, button, modifiers) returns
\* ESC[<C;X;Ys where C is the base button code (left 0, middle 1, right 2,
\* scrollUp 64, scrollDown 65, a number, or the N of 'button-N') plus 4 for
\* shift, 8 for alt, 16 for ctrl and 32 for a drag event, X = x + 1,
\* Y = y + 1, and s is 'm' for release and 'M' for press and drag.
MouseSequenceFormat ==
  (pc \in {"returned", "thrown"} /\ mouse.button \in ValidButtons) =>
    /\ pc = "returned"
    /\ mouse.sequence =
         <<"ESC", "[", "<">> \o DecimalString(ExpectedCode) \o <<";">>
         \o DecimalString(mouse.x + 1) \o <<";">> \o DecimalString(mouse.y + 1)
         \o <<IF mouse.event = "release" THEN "m" ELSE "M">>

\* Releasing the right button at (9, 79) with shift and ctrl held gives
\* ESC[<22;10;80m.
MouseSequenceWitness ==
  /\ pc = "returned"
  /\ mouse.event = "release"
  /\ mouse.button = StringButton(RightName)
  /\ mouse.modifiers = {"shift", "ctrl"}
  /\ mouse.sequence = <<"ESC","[","<","2","2",";","1","0",";","8","0","m">>

\* A button the protocol does not know: a number outside 0..127, a string
\* that is neither a known name nor 'button-N' with N in 0..127, or a value
\* that is neither a number nor a string.
IsInvalidButton(button) ==
  CASE button.type = "number" -> button.n \notin 0..LastButtonCode
    [] button.type = "string" ->
         /\ button.s \notin {LeftName, MiddleName, RightName, ScrollUpName, ScrollDownName}
         /\ ~\E n \in 0..LastButtonCode : button.s = ButtonPrefix \o DecimalString(n)
    [] OTHER -> TRUE

\* C25: generateMouseEvent throws for every button that is not a known
\* name and for every button code outside 0..127, however it is supplied
\* (as 'button-N' or as a number); it never returns a sequence for such a
\* button.
InvalidButtonThrows ==
  (pc \in {"returned", "thrown"} /\ IsInvalidButton(mouse.button)) =>
    /\ pc = "thrown"
    /\ mouse.sequence = <<>>

(***************************************************************************)
(* The mcpretentious-type handler.  The text sent to a terminal is a       *)
(* sequence of character codes; key names are strings of the model.        *)
(***************************************************************************)
MaxInput == 2

\* The entries of TERMINAL_KEY_MAP written out in the source.
NamedKeys ==
  <<<<<<"t", "a", "b">>, <<9>>>>,
    <<<<"s", "h", "i", "f", "t", "-", "t", "a", "b">>, <<27, 91, 90>>>>,
    <<<<"e", "n", "t", "e", "r">>, <<13>>>>,
    <<<<"r", "e", "t", "u", "r", "n">>, <<13>>>>,
    <<<<"e", "s", "c", "a", "p", "e">>, <<27>>>>,
    <<<<"e", "s", "c">>, <<27>>>>,
    <<<<"b", "a", "c", "k", "s", "p", "a", "c", "e">>, <<8>>>>,
    <<<<"d", "e", "l", "e", "t", "e">>, <<127>>>>,
    <<<<"u", "p">>, <<27, 91, 65>>>>,
    <<<<"d", "o", "w", "n">>, <<27, 91, 66>>>>,
    <<<<"r", "i", "g", "h", "t">>, <<27, 91, 67>>>>,
    <<<<"l", "e", "f", "t">>, <<27, 91, 68>>>>,
    <<<<"h", "o", "m", "e">>, <<27, 91, 72>>>>,
    <<<<"e", "n", "d">>, <<27, 91, 70>>>>,
    <<<<"p", "a", "g", "e", "u", "p">>, <<27, 91, 53, 126>>>>,
    <<<<"p", "a", "g", "e", "d", "o", "w", "n">>, <<27, 91, 54, 126>>>>,
    <<<<"f", "1">>, <<27, 79, 80>>>>,
    <<<<"f", "2">>, <<27, 79, 81>>>>,
    <<<<"f", "3">>, <<27, 79, 82>>>>,
    <<<<"f", "4">>, <<27, 79, 83>>>>,
    <<<<"f", "5">>, <<27, 91, 49, 53, 126>>>>,
    <<<<"f", "6">>, <<27, 91, 49, 55, 126>>>>,
    <<<<"f", "7">>, <<27, 91, 49, 56, 126>>>>,
    <<<<"f", "8">>, <<27, 91, 49, 57, 126>>>>,
    <<<<"f", "9">>, <<27, 91, 50, 48, 126>>>>,
    <<<<"f", "1", "0">>, <<27, 91, 50, 49, 126>>>>,
    <<<<"f", "1", "1">>, <<27, 91, 50, 51, 126>>>>,
    <<<<"f", "1", "2">>, <<27, 91, 50, 52, 126>>>>>>

\* Array.from({ length: 26 }, (_, i) => [`ctrl-${letter i}`, fromCharCode(i + 1)])
CtrlKeys ==
  [i \in 1..26 |-> <<<<"c", "t", "r", "l", "-", LowerAZ[i]>>, <<i>>>>]

\* const TERMINAL_KEY_MAP = { ... }: the own properties of the object.
TERMINAL_KEY_MAP ==
  LET entries == NamedKeys \o CtrlKeys
  IN  [name \in {entries[k][1] : k \in 1..Len(entries)} |->
         entries[CHOOSE k \in 1..Len(entries) : entries[k][1] = name][2]]

\* The character codes of the text a function converts to.
FunctionCodes == <<102, 117, 110, 99, 116, 105, 111, 110>>

\* String.prototype.toLowerCase()
toLowerCase(s) ==
  [k \in 1..Len(s) |->
     IF Contains(UpperAZ, s[k]) THEN LowerAZ[IndexOf(UpperAZ, s[k])] ELSE s[k]]

\* TERMINAL_KEY_MAP[name]: undefined (the empty set), an own property, or
\* a property inherited from Object.prototype.
keyLookup(name) ==
  IF name \in DOMAIN TERMINAL_KEY_MAP THEN {TERMINAL_KEY_MAP[name]}
  ELSE IF name \in ObjectPrototype THEN {FunctionCodes}
  ELSE {}

\* The items of an input array.
NumberItem(n) == [type |-> "number", n |-> n, s |-> <<>>, key |-> <<>>]
StringItem(s) == [type |-> "string", n |-> 0, s |-> s, key |-> <<>>]
KeyItem(key) == [type |-> "object", n |-> 0, s |-> <<>>, key |-> key]

\* One iteration of "for (const item of input)": the error returned, or
\* textToSend after the item.
typeItem(textToSend, item) ==
  IF item.type = "number" THEN
    IF item.n < 0 \/ item.n > 255
    THEN [error |-> "Invalid ASCII code", textToSend |-> textToSend]
    ELSE [error |-> "none", textToSend |-> textToSend \o <<item.n>>]
  ELSE IF item.type = "string" THEN
    [error |-> "none", textToSend |-> textToSend \o item.s]
  ELSE IF item.type = "object" /\ item.key # <<>> THEN
    LET keySeq == keyLookup(toLowerCase(item.key))
    IN  IF keySeq = {}
        THEN [error |-> "Unknown key", textToSend |-> textToSend]
        ELSE [error |-> "none", textToSend |-> textToSend \o (CHOOSE seq \in keySeq : TRUE)]
  ELSE [error |-> "Invalid input type", textToSend |-> textToSend]

\* The loop over the input from item k on.
RECURSIVE typeLoop(_, _, _)
typeLoop(input, k, textToSend) ==
  IF k > Len(input) THEN [error |-> "none", textToSend |-> textToSend]
  ELSE LET step == typeItem(textToSend, input[k])
       IN  IF step.error # "none" THEN step
           ELSE typeLoop(input, k + 1, step.textToSend)

\* "Validate input first" and "Build text to send with validation".
validateInput(input) ==
  IF Len(input) = 0 THEN [error |-> "Empty sequence provided", textToSend |-> <<>>]
  ELSE typeLoop(input, 1, <<>>)

TypeItems ==
  {StringItem(<<108, 115>>), StringItem(<<>>),
   NumberItem(0), NumberItem(65), NumberItem(255), NumberItem(256), NumberItem(0 - 1),
   KeyItem(<<"e", "n", "t", "e", "r">>), KeyItem(<<"E", "n", "t", "e", "r">>),
   KeyItem(<<"c", "t", "r", "l", "-", "c">>), KeyItem(<<"f", "1", "2">>),
   KeyItem(<<"n", "o", "p", "e">>), KeyItem(<<>>), KeyItem(ConstructorName)}

\* A call of the tool: the input array, the terminal id, and what the
\* backend manager will answer.
TypeInit ==
  \E n \in 0..MaxInput :
    \E input \in [1..n -> TypeItems], terminalId \in {"", "tmux:mcp-1"},
       hasBackends \in BOOLEAN, exists \in BOOLEAN, sendText \in BOOLEAN :
      /\ ScreenIdle
      /\ pc = "type"
      /\ mouse = NoMouse
      /\ typing = [NoTyping EXCEPT !.terminalId = terminalId, !.input = input]
      /\ session = [hasBackends |-> hasBackends, exists |-> exists, sendText |-> sendText]
      /\ calls = <<>>
      /\ manager = NewManager
      /\ attempt = NoAttempt

\* The handler up to "Now execute with terminal session".
TypeValidate ==
  /\ pc = "type"
  /\ LET v == validateInput(typing.input)
     IN  IF v.error # "none"
         THEN /\ typing' = [typing EXCEPT !.response = v.error]
              /\ pc' = "responded"
         ELSE /\ typing' = [typing EXCEPT !.textToSend = v.textToSend]
              /\ pc' = "withTerminalSession"
  /\ UNCHANGED <<mouse, session, calls, manager, attempt, lines>>
  /\ UNCHANGED frameVars
  /\ UNCHANGED parserVars

\* withTerminalSession: the checks before the operation is run.
TypeSession ==
  /\ pc = "withTerminalSession"
  /\ IF ~session.hasBackends
     THEN /\ typing' = [typing EXCEPT !.response = "No terminal backend"]
          /\ pc' = "responded"
          /\ UNCHANGED calls
     ELSE IF typing.terminalId = ""
     THEN /\ typing' = [typing EXCEPT !.response = "Terminal ID is required"]
          /\ pc' = "responded"
          /\ UNCHANGED calls
     ELSE /\ calls' = Append(calls, [op |-> "sessionExists", text |-> <<>>])
          /\ IF ~session.exists
             THEN /\ typing' = [typing EXCEPT !.response = "Terminal not found"]
                  /\ pc' = "responded"
             ELSE /\ pc' = "operation"
                  /\ UNCHANGED typing
  /\ UNCHANGED <<mouse, session, manager, attempt, lines>>
  /\ UNCHANGED frameVars
  /\ UNCHANGED parserVars

\* The operation: backendManager.sendText(sessionId, textToSend) inside
\* safeExecute.
TypeSend ==
  /\ pc = "operation"
  /\ calls' = Append(calls, [op |-> "sendText", text |-> typing.textToSend])
  /\ typing' = [typing EXCEPT !.response = IF session.sendText THEN "Sent sequence"
                                           ELSE "Failed to send sequence"]
  /\ pc' = "responded"
  /\ UNCHANGED <<mouse, session, manager, attempt, lines>>
  /\ UNCHANGED frameVars
  /\ UNCHANGED parserVars

TypeNext == TypeValidate \/ TypeSession \/ TypeSend

TypeSpec == TypeInit /\ [][TypeNext]_vars

\* The responses that report an error.
ErrorResponses ==
  {"Empty sequence provided", "Invalid ASCII code", "Unknown key", "Invalid input type",
   "No terminal backend", "Terminal ID is required", "Terminal not found",
   "Failed to send sequence"}

\* The key names the tool supports: Object.keys(TERMINAL_KEY_MAP), in any
\* case of the letters.
IsSupportedKey(key) == toLowerCase(key) \in DOMAIN TERMINAL_KEY_MAP

\* An item the tool accepts: a string, a number 0..255, a supported key.
IsValidItem(item) ==
  CASE item.type = "string" -> TRUE
    [] item.type = "number" -> item.n \in 0..255
    [] OTHER -> item.key # <<>> /\ IsSupportedKey(item.key)

InputIsValid ==
  Len(typing.input) > 0 /\ \A k \in 1..Len(typing.input) : IsValidItem(typing.input[k])

\* The text of an accepted item.
ItemText(item) ==
  CASE item.type = "string" -> item.s
    [] item.type = "number" -> <<item.n>>
    [] OTHER -> TERMINAL_KEY_MAP[toLowerCase(item.key)]

SendCalls == SelectSeq(calls, LAMBDA c : c.op = "sendText")

\* C26: the mcpretentious-type handler validates the whole input array
\* before touching any terminal: an empty array, an unknown key name or an
\* out-of-range number yields an error response (even when the terminal
\* does not exist) and nothing is sent; text is sent to the backend at most
\* once per call, as one concatenated string, and only after every item
\* validated and the session was found to exist.
TypeValidatesBeforeSending ==
  /\ ~InputIsValid =>
       /\ calls = <<>>
       /\ pc = "responded" => typing.response \in ErrorResponses
  /\ Len(SendCalls) <= 1
  /\ Len(SendCalls) = 1 =>
       /\ InputIsValid
       /\ session.exists
       /\ calls = <<[op |-> "sessionExists", text |-> <<>>],
                    [op |-> "sendText",
                     text |-> Join([k \in 1..Len(typing.input) |-> ItemText(typing.input[k])])]>>

(***************************************************************************)
(* Properties of the extended colour codes.                                *)
(***************************************************************************)
\* A sequence without 0 in which every 38 / 48 read as a code is followed
\* by a complete 5;N or 2;r;g;b form.
RECURSIVE IsCompleteSequence(_)
IsCompleteSequence(codes) ==
  IF codes = <<>> THEN TRUE
  ELSE IF Head(codes) = 0 THEN FALSE
  ELSE IF Head(codes) \in {38, 48} THEN
    IF Len(codes) >= 3 /\ codes[2] = 5 THEN IsCompleteSequence(SubSeq(codes, 4, Len(codes)))
    ELSE IF Len(codes) >= 5 /\ codes[2] = 2 THEN IsCompleteSequence(SubSeq(codes, 6, Len(codes)))
    ELSE FALSE
  ELSE IsCompleteSequence(Tail(codes))

\* The effect of a complete sequence: 38;5;N / 48;5;N select standard
\* index N and consume three parameters, 38;2;r;g;b / 48;2;r;g;b select
\* the true colour and consume five, every other code has its own effect.
RECURSIVE ExtendedEffect(_, _)
ExtendedEffect(s, codes) ==
  IF codes = <<>> THEN s
  ELSE IF Head(codes) \in {38, 48} /\ codes[2] = 5 THEN
    ExtendedEffect(IF Head(codes) = 38 THEN [s EXCEPT !.fg = Std(codes[3])]
                   ELSE [s EXCEPT !.bg = Std(codes[3])],
                   SubSeq(codes, 4, Len(codes)))
  ELSE IF Head(codes) \in {38, 48} THEN
    ExtendedEffect(IF Head(codes) = 38
                   THEN [s EXCEPT !.fg = TrueColor(codes[3], codes[4], codes[5])]
                   ELSE [s EXCEPT !.bg = TrueColor(codes[3], codes[4], codes[5])],
                   SubSeq(codes, 6, Len(codes)))
  ELSE ExtendedEffect(CodeEffect(s, Head(codes)), Tail(codes))

\* The effect of complete sequences applied one after the other.
RECURSIVE SequencesEffect(_, _)
SequencesEffect(s, seqs) ==
  IF seqs = <<>> THEN s ELSE SequencesEffect(ExtendedEffect(s, Head(seqs)), Tail(seqs))

\* C27: an extended colour code sets the colour regardless of what was set
\* before: after 38;2;r;g;b (48;2;r;g;b) the next run's foreground
\* (background) is the true colour, after 38;5;N (48;5;N) it is standard
\* index N, also when an earlier code of the same escape sequence had
\* already set that colour; codes following the consumed 5 or 3 parameters
\* are still applied.
ExtendedColourOverrides ==
  (pc = "parsing" /\ \A k \in 1..Len(Applied) : IsCompleteSequence(Applied[k])) =>
    ShownOf(currentStyle) = SequencesEffect(ShownDefault, Applied)

\* The palette convertToLayers builds for the parsed screen when both
\* colour layers are requested.
ParsedPalette == convertToLayers(lines, cursor, {"text", "fgColors", "bgColors"}).colorPalette

\* '#' followed by exactly six lowercase hex digits.
IsHexColour(h) ==
  /\ Len(h) = 7
  /\ h[1] = "#"
  /\ \A k \in 2..7 : Contains(HexDigits, h[k])

\* C28: for every raw line accepted by the parser, 38;5;N with N > 255 and
\* 38;2;r;g;b with a component > 255 included, every value stored in
\* colorPalette other than null is a well-formed "#rrggbb" string.
PaletteValuesAreHex ==
  pc = "parsed" =>
    \A palette \in ParsedPalette :
      \A t \in DOMAIN palette : palette[t] = Null \/ IsHexColour(palette[t])

\* C29: in aroundCursor mode, for every terminal height H >= 1, cursor row
\* y in 0..H-1 and distance N >= 0, the viewport's row range
\* [top, top + height) contains the cursor row and lies entirely inside
\* the terminal's rows [0, H).
AroundCursorStaysInside ==
  (pc = "done" /\ viewport.mode = "aroundCursor"
     /\ terminal.height >= 1 /\ cursor.y \in 0..(terminal.height - 1)) =>
    /\ viewport.top <= cursor.y
    /\ cursor.y < viewport.top + viewport.height
    /\ viewport.top >= 0
    /\ viewport.top + viewport.height <= terminal.height

(***************************************************************************)
(* The BackendManager (lib/backend-manager.js).  A Map is a sequence of    *)
(* entries in insertion order; a backend object is known by its type and   *)
(* by the initialization that created it.                                  *)
(***************************************************************************)
MaxCalls == 4

BackendTypes == {"iterm", "tmux"}

\* new ITerm2Backend() / new TmuxBackend() made by initialization number g.
Instance(type, g) == [type |-> type, generation |-> g]

\* Map.prototype.set: the value of an existing key is replaced in place, a
\* new key is added at the end.
mapSet(map, inst) ==
  IF \E k \in 1..Len(map) : map[k].type = inst.type
  THEN [k \in 1..Len(map) |-> IF map[k].type = inst.type THEN inst ELSE map[k]]
  ELSE Append(map, inst)

\* "Register available backends"
registerBackends(map, g) == mapSet(mapSet(map, Instance("iterm", g)), Instance("tmux", g))

\* autoDetectBackend: the first backend in the order iterm, tmux that is
\* available and whose init() does not throw; null (the empty set) if none.
autoDetectBackend(backends, working) ==
  LET priority == <<"iterm", "tmux">>
      usable == SelectSeq(priority,
                          LAMBDA t : t \in working /\ \E k \in 1..Len(backends) : backends[k].type = t)
  IN  IF usable = <<>> THEN {}
      ELSE {backends[CHOOSE k \in 1..Len(backends) : backends[k].type = usable[1]]}

\* return !this.noBackendsAvailable && this.defaultBackend !== null
hasBackends(m) == ~m.noBackendsAvailable /\ m.defaultBackend # {}

\* init(preferredBackend) on a manager that is not initialized: the fields
\* after the call and whether it threw.  working holds the types whose
\* isAvailable() is true and whose init() succeeds.
initManager(m, preferredBackend, working, g) ==
  LET backends == registerBackends(m.backends, g)
      registered == [m EXCEPT !.backends = backends]
  IN  IF preferredBackend = "auto" THEN
        LET defaultBackend == autoDetectBackend(backends, working)
        IN  [thrown |-> FALSE,
             manager |-> [registered EXCEPT
                            !.defaultBackend = defaultBackend,
                            !.noBackendsAvailable = IF defaultBackend = {} THEN TRUE ELSE @,
                            !.initialized = TRUE,
                            !.apiMode = FALSE]]
      ELSE IF preferredBackend \in working THEN
        [thrown |-> FALSE,
         manager |-> [registered EXCEPT
                        !.defaultBackend = {Instance(preferredBackend, g)},
                        !.initialized = TRUE,
                        !.apiMode = FALSE]]
      ELSE [thrown |-> TRUE, manager |-> registered]

\* The loop "Check which backends are available" from entry k on.
RECURSIVE collectAvailable(_, _, _, _)
collectAvailable(backends, k, working, available) ==
  IF k > Len(backends) THEN available
  ELSE collectAvailable(backends, k + 1, working,
                        IF backends[k].type \in working
                        THEN mapSet(available, backends[k]) ELSE available)

\* initApiMode() on a manager that is not initialized.
initApiModeManager(m, working, g) ==
  LET backends == registerBackends(m.backends, g)
      availableBackends == collectAvailable(backends, 1, working, m.availableBackends)
  IN  [m EXCEPT !.backends = backends,
                !.availableBackends = availableBackends,
                !.noBackendsAvailable = IF Len(availableBackends) = 0 THEN TRUE ELSE @,
                !.defaultBackend = IF Len(availableBackends) = 0 THEN @
                                   ELSE {availableBackends[1]},
                !.initialized = TRUE,
                !.apiMode = TRUE]

\* close()
closeManager(m) ==
  [m EXCEPT !.backends = <<>>, !.defaultBackend = {}, !.initialized = FALSE]

\* The process starts with the singleton as its constructor made it.
ManagerInit ==
  /\ ScreenIdle
  /\ pc = "manager"
  /\ mouse = NoMouse
  /\ typing = NoTyping
  /\ session = NoSession
  /\ calls = <<>>
  /\ manager = NewManager
  /\ attempt = NoAttempt

\* What a call leaves in the record of calls.
Called(kind, g, found, thrown) ==
  [generation |-> g, kind |-> kind, found |-> found, thrown |-> thrown,
   count |-> attempt.count + 1]

\* backendManager.init(preferredBackend)
CallInit ==
  /\ pc = "manager"
  /\ attempt.count < MaxCalls
  /\ \E preferredBackend \in {"auto"} \cup BackendTypes, working \in SUBSET BackendTypes :
       IF manager.initialized
       THEN /\ UNCHANGED manager
            /\ attempt' = Called("init again", attempt.generation, attempt.found, FALSE)
       ELSE LET g == attempt.generation + 1
                r == initManager(manager, preferredBackend, working, g)
            IN  /\ manager' = r.manager
                /\ attempt' = Called("init", g,
                                     IF preferredBackend = "auto" THEN working # {}
                                     ELSE preferredBackend \in working,
                                     r.thrown)
  /\ UNCHANGED <<mouse, typing, session, calls, lines, pc>>
  /\ UNCHANGED frameVars
  /\ UNCHANGED parserVars

\* backendManager.initApiMode()
CallInitApiMode ==
  /\ pc = "manager"
  /\ attempt.count < MaxCalls
  /\ \E working \in SUBSET BackendTypes :
       IF manager.initialized
       THEN /\ UNCHANGED manager
            /\ attempt' = Called("init again", attempt.generation, attempt.found, FALSE)
       ELSE LET g == attempt.generation + 1
            IN  /\ manager' = initApiModeManager(manager, working, g)
                /\ attempt' = Called("initApiMode", g, working # {}, FALSE)
  /\ UNCHANGED <<mouse, typing, session, calls, lines, pc>>
  /\ UNCHANGED frameVars
  /\ UNCHANGED parserVars

\* backendManager.close()
CallClose ==
  /\ pc = "manager"
  /\ attempt.count < MaxCalls
  /\ manager' = closeManager(manager)
  /\ attempt' = Called("close", attempt.generation, attempt.found, FALSE)
  /\ UNCHANGED <<mouse, typing, session, calls, lines, pc>>
  /\ UNCHANGED frameVars
  /\ UNCHANGED parserVars

ManagerNext == CallInit \/ CallInitApiMode \/ CallClose

ManagerSpec == ManagerInit /\ [][ManagerNext]_vars

\* C30: after any sequence of init, initApiMode and close calls, whenever
\* the manager is initialized hasBackends() is true exactly when the most
\* recent initialization found an available backend, and the default
\* backend is one registered by that initialization: the no-backends flag,
\* the available-backend table and the API-mode flag of an earlier
\* initialization do not survive close().  A repeated init while already
\* initialized changes nothing.
ManagerReflectsLastInit ==
  manager.initialized =>
    /\ hasBackends(manager) <=> attempt.found
    /\ \A b \in manager.defaultBackend :
         /\ b.generation = attempt.generation
         /\ \E k \in 1..Len(manager.backends) : manager.backends[k] = b

====
